---- MODULE Spec2Model ----
(***************************************************************************)
(* Model of the Golden Codex API gateway: the token ledger                 *)
(* (services/tokens.py) and the job lifecycle (services/jobs.py).          *)
(*                                                                         *)
(* The gateway keeps all of its job and ledger state in a shared Firestore *)
(* database and holds none of it in the server process, so request         *)
(* handlers of different server processes interleave between any two       *)
(* Firestore calls.  Every Firestore call (get, set, update, query) is one *)
(* atomic step of the model; deduct_tokens and refund_tokens run inside a  *)
(* @firestore.transactional closure and are one atomic step each.          *)
(***************************************************************************)
EXTENDS Integers, Sequences, FiniteSets, TLC

\* ------------------------------------------------------------------ bounds
Users == {"u1", "u2"}
CreateProcs == {"c1", "c2"}
CancelProcs == {"x1"}
MaxJobs == 2
MaxBalance == 5
LegacyCredits == 2

JobIds == 1..MaxJobs
\* the clock runs over the first window and the start of the second
MaxTime == 64
\* checks one key may make in one window
MaxChecks == 12

\* ------------------------------------------------------- program constants
cost_nova_standard == 1
cost_nova_full == 2
cost_flux_2x == 1
cost_flux_4x == 2
cost_atlas == 1

\* config.py: requests per minute by tier
rate_limit_free == 10
rate_limit_curator == 30
rate_limit_studio == 100
rate_limit_gallery == 300

None == "None"

NOVA == "nova"
FLUX == "flux"
ATLAS == "atlas"
Operation == {NOVA, FLUX, ATLAS}

PENDING == "pending"
PROCESSING == "processing"
COMPLETED == "completed"
FAILED == "failed"
CANCELLED == "cancelled"
\* schemas.py: SubscriptionTier
FREE_TRIAL == "FREE_TRIAL"
CURATOR == "CURATOR"
STUDIO == "STUDIO"
GALLERY == "GALLERY"
SubscriptionTier == {FREE_TRIAL, CURATOR, STUDIO, GALLERY}

JobStatus == {PENDING, PROCESSING, COMPLETED, FAILED, CANCELLED}

\* In the options, None stands for an options object (or the whole options
\* argument) that is absent.

\* ------------------------------------------------------------ inputs drawn
\* the longest payload that is signed
MaxPayloadLen == 2
MaxOps == 2
MaxRetries == 2
RequestIds == {None, "k1"}
WebhookUrls == {None, "hook"}
NoOptions == [nova |-> None, flux |-> None]
JobRequests ==
    {[operations |-> <<NOVA>>, options |-> [nova |-> "full_gcx", flux |-> None]],
     [operations |-> <<NOVA, FLUX>>, options |-> NoOptions]}
CancelJobRequests ==
    JobRequests \cup
    {[operations |-> <<>>, options |-> NoOptions],
     [operations |-> <<ATLAS, FLUX>>, options |-> [nova |-> None, flux |-> "2x"]],
     [operations |-> <<NOVA, FLUX, ATLAS>>, options |-> NoOptions]}
IMAGE == "img"
UPSCALED == "img_upscaled"
FINAL == "img_final"
CODEX == "codex"
EMPTY == "empty"

\* What a provider call can do: answer 2xx, answer an error status
\* (raise_for_status raises) or run into the client timeout (post raises).
StageFailures == {"error", "timeout"}

\* ----------------------------------------------------------- pure functions
\* calculate_cost: the per-stage breakdown
NovaCost(options) ==
    LET tier == IF options.nova # None THEN options.nova ELSE "standard"
    IN  IF tier = "full_gcx" THEN cost_nova_full ELSE cost_nova_standard

\* the high cost for 4x and anime only
FluxCostTwoHigh(options) ==
    LET model == IF options.flux # None THEN options.flux ELSE "4x"
    IN  IF model \in {"4x", "anime"} THEN cost_flux_4x ELSE cost_flux_2x

FluxCost(options) ==
    LET model == IF options.flux # None THEN options.flux ELSE "4x"
    IN  IF model \in {"4x", "anime", "photo"} THEN cost_flux_4x ELSE cost_flux_2x

AtlasCost == cost_atlas

\* "X in operations" on the request's list of operations
Has(op, operations) == \E i \in 1..Len(operations) : operations[i] = op

breakdown(operations, options) ==
    [op \in {o \in Operation : Has(o, operations)} |->
        IF op = NOVA THEN NovaCost(options)
        ELSE IF op = FLUX THEN FluxCost(options)
        ELSE AtlasCost]

\* a total that charges every entry of the list
calculate_costPerEntry(operations, options) ==
    Cardinality({i \in 1..Len(operations) : operations[i] = NOVA})
        * NovaCost(options)
  + Cardinality({i \in 1..Len(operations) : operations[i] = FLUX})
        * FluxCost(options)
  + Cardinality({i \in 1..Len(operations) : operations[i] = ATLAS})
        * AtlasCost

calculate_cost(operations, options) ==
    (IF Has(NOVA, operations) THEN NovaCost(options) ELSE 0)
  + (IF Has(FLUX, operations) THEN FluxCost(options) ELSE 0)
  + (IF Has(ATLAS, operations) THEN AtlasCost ELSE 0)

\* ------------------------------------------------------------------- state
VARIABLES
    balance,            \* users/{u}.tokens.balance
    credits_available,  \* users/{u}.credits_available (legacy field)
    initial_balance,    \* history: the balance check_balance reported at start
    tokenTransactions,  \* users/{u}/tokenTransactions, in commit order
    api_jobs,           \* api_jobs/{job_id}
    create,             \* the create_job handlers (with trigger_pipeline)
    cancel,             \* the cancel_job handlers
    providerCalls,      \* per job, the provider requests sent so far
    webhooks,           \* per job, the webhook deliveries attempted so far
    rate_limits,        \* _rate_limits: key_id -> RateLimitWindow
    now,                \* int(time.time()) of the gateway process
    window_calls,       \* history: per key, the checks made in its window
    rate_result,        \* what the check made at this instant answered
    reads,              \* the last answer of a read-only gateway endpoint
    sdk,                \* the webhook receiver: what was signed and verified
    client              \* the SDK client: its _request call in progress

jobvars == <<balance, credits_available, initial_balance, tokenTransactions,
             api_jobs, create, cancel, providerCalls, webhooks>>

ratevars == <<rate_limits, now, window_calls, rate_result>>

sidevars == <<reads, sdk, client>>

vars == <<jobvars, ratevars, sidevars>>

dbvars == <<balance, credits_available, tokenTransactions, api_jobs>>

\* check_balance / verify_api_key: the balance the gateway reports
current_balance(u) ==
    IF balance[u] = 0 THEN credits_available[u] ELSE balance[u]

\* the balance deduct_in_transaction reads
deduct_read_balance(u) ==
    IF balance[u] = 0 THEN credits_available[u] ELSE balance[u]

\* the balance refund_in_transaction reads
refund_read_balance(u) == balance[u]

Tx(type, amount, reason, job_id, balance_after) ==
    [type |-> type, amount |-> amount, reason |-> reason, job_id |-> job_id,
     balance_after |-> balance_after]

NoResults == [original |-> None, golden_codex |-> None, upscaled |-> None,
              final |-> None]
NoError == [code |-> None, message |-> None, retryable |-> FALSE]
NoJobData == [status |-> None, charged |-> 0, webhook_url |-> None,
              results |-> NoResults, error |-> NoError]

NoResponse == [job_id |-> 0, status |-> None, estimated |-> 0]

\* ----------------------------------------------- rate_limit.py: state
\* the credentials verify_api_key hands to check_rate_limit
AuthContexts ==
    {[key_id |-> "ka", tier |-> FREE_TRIAL],
     [key_id |-> "kb", tier |-> CURATOR]}

KeyIds == {auth.key_id : auth \in AuthContexts}

RateLimitWindow(count, window_start) ==
    [count |-> count, window_start |-> window_start]

\* history of one key: the window of its latest check, how many checks
\* were made and admitted in it, and whether an earlier window of the key
\* ended with a refusal
NoCalls == [window_start |-> -1, n |-> 0, admitted |-> 0, exhausted |-> FALSE]

NoRateResult ==
    [key_id |-> None, admitted |-> FALSE, limit |-> 0, remaining |-> 0,
     reset |-> 0, retry_after |-> 0]

\* no read-only endpoint has answered yet
NoRead == [op |-> None]

\* the receiver has neither signed nor verified anything yet
NoSdk == [op |-> None]

\* the SDK client before a call; max_retries is BaseClient's default
IdleClient ==
    [pc |-> "idle", max_retries |-> 2, request_id |-> None, retry |-> 0,
     sends |-> 0, statuses |-> <<>>, handler |-> None, outcome |-> None]

IdleCreate ==
    [pc |-> "idle", user_id |-> None, request_id |-> None, operations |-> <<>>,
     options |-> NoOptions, webhook_url |-> None,
     job_id |-> 0, total_cost |-> 0, current_image_url |-> None,
     results |-> NoResults, stage |-> None, error |-> NoError,
     job_data |-> NoJobData, outcome |-> None, response |-> NoResponse]

IdleCancel ==
    [pc |-> "idle", user_id |-> None, job_id |-> 0, cost |-> 0,
     outcome |-> None]

Init ==
    /\ balance \in [Users -> {0, MaxBalance}]
    /\ credits_available = [u \in Users |->
            IF balance[u] = 0 THEN LegacyCredits ELSE 0]
    /\ initial_balance = [u \in Users |->
            IF balance[u] = 0 THEN credits_available[u] ELSE balance[u]]
    /\ tokenTransactions = [u \in Users |-> <<>>]
    /\ api_jobs = <<>>
    /\ create = [p \in CreateProcs |-> IdleCreate]
    /\ cancel = [q \in CancelProcs |-> IdleCancel]
    /\ providerCalls = [j \in JobIds |-> <<>>]
    /\ webhooks = [j \in JobIds |-> <<>>]
    /\ rate_limits = <<>>
    /\ now = 0
    /\ window_calls = [k \in KeyIds |-> NoCalls]
    /\ rate_result = NoRateResult
    /\ reads = NoRead
    /\ sdk = NoSdk
    /\ client = IdleClient

\* ----------------------------------------------------------------- helpers
\* generate_job_id: a uuid, modelled as the next unused number
NextJobId == Cardinality({p \in CreateProcs : create[p].job_id # 0}) + 1

\* the documents the idempotency query of create_job matches
existing_docs(user_id, request_id) ==
    {j \in DOMAIN api_jobs : /\ api_jobs[j].user_id = user_id
                             /\ api_jobs[j].request_id = request_id}

\* a pipeline that runs the upscaling before the enrichment
StageOrderSwapped == <<FLUX, NOVA, ATLAS>>

\* the stages of trigger_pipeline in their fixed order
StageOrder == <<NOVA, FLUX, ATLAS>>

RECURSIVE FirstStageFrom(_, _)
FirstStageFrom(i, operations) ==
    IF i > Len(StageOrder) THEN None
    ELSE IF Has(StageOrder[i], operations) THEN StageOrder[i]
    ELSE FirstStageFrom(i + 1, operations)

StageIndex(s) == CHOOSE i \in 1..Len(StageOrder) : StageOrder[i] = s

FirstStage(operations) == FirstStageFrom(1, operations)
StageAfter(s, operations) == FirstStageFrom(StageIndex(s) + 1, operations)

\* where trigger_pipeline goes once the stages up to s are done
PcForStage(s) == IF s = None THEN "complete" ELSE "stage_begin"

\* a job document that gives every stage a progress entry
job_dataAllStages(p) ==
    [user_id |-> create[p].user_id,
     request_id |-> create[p].request_id,
     status |-> PENDING,
     operations |-> create[p].operations,
     options |-> create[p].options,
     webhook_url |-> create[p].webhook_url,
     estimated |-> create[p].total_cost,
     charged |-> create[p].total_cost,
     refunded |-> 0,
     progress |-> [op \in Operation |-> PENDING],
     results |-> NoResults,
     error |-> NoError,
     created_at |-> create[p].job_id,
     started_at |-> FALSE,
     completed_at |-> FALSE]

\* lines 89-121: the job document create_job writes
job_data(p) ==
    [user_id |-> create[p].user_id,
     request_id |-> create[p].request_id,
     status |-> PENDING,
     operations |-> create[p].operations,
     options |-> create[p].options,
     webhook_url |-> create[p].webhook_url,
     estimated |-> create[p].total_cost,
     charged |-> create[p].total_cost,
     refunded |-> 0,
     progress |-> [op \in Operation |->
                     IF Has(op, create[p].operations) THEN PENDING
                     ELSE None],
     results |-> NoResults,
     error |-> NoError,
     created_at |-> create[p].job_id,
     started_at |-> FALSE,
     completed_at |-> FALSE]

\* ------------------------------------------------- tokens.py: the ledger
\* deduct_in_transaction, lines 112-153, when the balance suffices
deduct_tokens(user_id, amount, reason, job_id) ==
    LET new_balance == deduct_read_balance(user_id) - amount IN
    /\ balance' = [balance EXCEPT ![user_id] = new_balance]
    /\ tokenTransactions' = [tokenTransactions EXCEPT ![user_id] =
          Append(@, Tx("deduction", amount, reason, job_id, new_balance))]

\* the guard of deduct_in_transaction, line 120
insufficient_credits(user_id, amount) == deduct_read_balance(user_id) < amount

\* refund_in_transaction, lines 181-205
refund_tokens(user_id, amount, reason, job_id) ==
    LET new_balance == refund_read_balance(user_id) + amount IN
    /\ balance' = [balance EXCEPT ![user_id] = new_balance]
    /\ tokenTransactions' = [tokenTransactions EXCEPT ![user_id] =
          Append(@, Tx("refund", amount, reason, job_id, new_balance))]

\* ------------------------------------------------- jobs.py: create_job
\* create_job without the return of line 71: the job found is ignored
CreateReplayCharges(p, user_id, request_id, operations, options, webhook_url) ==
    /\ create[p].pc = "idle"
    /\ request_id # None
    /\ existing_docs(user_id, request_id) # {}
    /\ create' = [create EXCEPT ![p] =
            [@ EXCEPT !.pc = "deduct", !.user_id = user_id,
                      !.request_id = request_id,
                      !.operations = operations, !.options = options,
                      !.webhook_url = webhook_url,
                      !.total_cost = calculate_cost(operations, options)]]
    /\ UNCHANGED <<dbvars, initial_balance, ratevars, sidevars, cancel, providerCalls, webhooks>>

\* lines 57-82: the request arrives, the cost is computed and the
\* idempotency query finds a job: the handler returns it
CreateReplay(p, user_id, request_id, operations, options, webhook_url) ==
    /\ create[p].pc = "idle"
    /\ request_id # None
    /\ \E j \in existing_docs(user_id, request_id) :
        create' = [create EXCEPT ![p] =
            [@ EXCEPT !.pc = "done", !.user_id = user_id,
                      !.request_id = request_id,
                      !.operations = operations, !.options = options,
                      !.webhook_url = webhook_url,
                      !.total_cost = calculate_cost(operations, options),
                      !.outcome = "replayed",
                      !.response = [job_id |-> j,
                                    status |-> api_jobs[j].status,
                                    estimated |-> api_jobs[j].estimated]]]
    /\ UNCHANGED <<dbvars, initial_balance, ratevars, sidevars, cancel, providerCalls, webhooks>>

\* lines 57-68: the idempotency query finds nothing (or no request_id)
CreateCheck(p, user_id, request_id, operations, options, webhook_url) ==
    /\ create[p].pc = "idle"
    /\ request_id = None \/ existing_docs(user_id, request_id) = {}
    /\ create' = [create EXCEPT ![p] =
            [@ EXCEPT !.pc = "deduct", !.user_id = user_id,
                      !.request_id = request_id,
                      !.operations = operations, !.options = options,
                      !.webhook_url = webhook_url,
                      !.total_cost = calculate_cost(operations, options)]]
    /\ UNCHANGED <<dbvars, initial_balance, ratevars, sidevars, cancel, providerCalls, webhooks>>

\* create_job going on to write the job although the deduction was refused
CreateInsufficientIgnored(p) ==
    /\ create[p].pc = "deduct"
    /\ insufficient_credits(create[p].user_id, create[p].total_cost)
    /\ NextJobId \in JobIds
    /\ create' = [create EXCEPT ![p] =
            [@ EXCEPT !.pc = "insert", !.job_id = NextJobId]]
    /\ UNCHANGED <<dbvars, initial_balance, ratevars, sidevars, cancel, providerCalls, webhooks>>

\* lines 85-86 with tokens.py 120-131: the balance does not suffice and
\* deduct_tokens raises 402 out of create_job
CreateInsufficient(p) ==
    /\ create[p].pc = "deduct"
    /\ insufficient_credits(create[p].user_id, create[p].total_cost)
    /\ create' = [create EXCEPT ![p] =
            [@ EXCEPT !.pc = "done", !.outcome = "insufficient_credits"]]
    /\ UNCHANGED <<dbvars, initial_balance, ratevars, sidevars, cancel, providerCalls, webhooks>>

\* lines 85-86: the job id is generated and the tokens are deducted
CreateDeduct(p) ==
    /\ create[p].pc = "deduct"
    /\ ~insufficient_credits(create[p].user_id, create[p].total_cost)
    /\ NextJobId \in JobIds
    /\ deduct_tokens(create[p].user_id, create[p].total_cost, "api_job",
                     NextJobId)
    /\ create' = [create EXCEPT ![p] =
            [@ EXCEPT !.pc = "insert", !.job_id = NextJobId]]
    /\ UNCHANGED <<credits_available, initial_balance, ratevars, sidevars, api_jobs, cancel,
                   providerCalls, webhooks>>

\* lines 89-123: the job document is written
CreateInsert(p) ==
    /\ create[p].pc = "insert"
    /\ api_jobs' = (create[p].job_id :> job_data(p)) @@ api_jobs
    /\ create' = [create EXCEPT ![p] = [@ EXCEPT !.pc = "start"]]
    /\ UNCHANGED <<balance, credits_available, initial_balance, ratevars, sidevars,
                   tokenTransactions, cancel, providerCalls, webhooks>>

\* ------------------------------------------- jobs.py: trigger_pipeline
UpdateJob(j, f) == api_jobs' = [api_jobs EXCEPT ![j] = f]

\* lines 279-289: status processing, started_at; results and
\* current_image_url are initialised
PipelineStart(p) ==
    LET j == create[p].job_id IN
    /\ create[p].pc = "start"
    /\ UpdateJob(j, [api_jobs[j] EXCEPT !.status = PROCESSING,
                                        !.started_at = TRUE])
    /\ create' = [create EXCEPT ![p] =
            [@ EXCEPT !.pc = PcForStage(FirstStage(create[p].operations)),
                      !.stage = FirstStage(create[p].operations),
                      !.results = [NoResults EXCEPT !.original = IMAGE],
                      !.current_image_url = IMAGE]]
    /\ UNCHANGED <<balance, credits_available, initial_balance, ratevars, sidevars,
                   tokenTransactions, cancel, providerCalls, webhooks>>

\* lines 294, 316, 340: progress.<stage> = processing
StageBegin(p) ==
    LET j == create[p].job_id
        s == create[p].stage IN
    /\ create[p].pc = "stage_begin"
    /\ UpdateJob(j, [api_jobs[j] EXCEPT !.progress[s] = PROCESSING])
    /\ create' = [create EXCEPT ![p] = [@ EXCEPT !.pc = "stage_call"]]
    /\ UNCHANGED <<balance, credits_available, initial_balance, ratevars, sidevars,
                   tokenTransactions, cancel, providerCalls, webhooks>>

\* a pipeline that always sends the job's original image
StageRequestOriginal(p) ==
    [stage |-> create[p].stage,
     image_url |-> IMAGE,
     golden_codex |->
        IF create[p].stage # ATLAS THEN None
        ELSE IF create[p].results.golden_codex # None
             THEN create[p].results.golden_codex ELSE EMPTY]

\* the request body of the stage's client.post
StageRequest(p) ==
    [stage |-> create[p].stage,
     image_url |-> create[p].current_image_url,
     golden_codex |->
        IF create[p].stage # ATLAS THEN None
        ELSE IF create[p].results.golden_codex # None
             THEN create[p].results.golden_codex ELSE EMPTY]

\* one entry of the log of provider calls: the request sent and what came
\* back ("ok": 2xx with the stage's output field, "ok_empty": 2xx without
\* it, or the failure)
StageCall(p, response) == [request |-> StageRequest(p), response |-> response]

\* lines 310-311, 331-335, 355-358: the response is merged into results;
\* full tells whether the body carries the stage's output field
MergeResults(p, full) ==
    LET s == create[p].stage
        r == create[p].results IN
    IF s = NOVA THEN [r EXCEPT !.golden_codex = IF full THEN CODEX ELSE EMPTY]
    ELSE IF s = FLUX THEN [r EXCEPT !.upscaled = IF full THEN UPSCALED ELSE @]
    ELSE [r EXCEPT !.final = IF full THEN FINAL ELSE @]

\* lines 297-311, 319-335, 343-358: the provider answers 2xx
StageCallOk(p, full) ==
    LET j == create[p].job_id IN
    /\ create[p].pc = "stage_call"
    /\ providerCalls' = [providerCalls EXCEPT ![j] =
          Append(@, StageCall(p, IF full THEN "ok" ELSE "ok_empty"))]
    /\ create' = [create EXCEPT ![p] =
            [@ EXCEPT !.pc = "stage_end",
                      !.results = MergeResults(p, full),
                      !.current_image_url =
                          IF create[p].stage = FLUX /\ full THEN UPSCALED
                          ELSE @]]
    /\ UNCHANGED <<dbvars, initial_balance, ratevars, sidevars, cancel, webhooks>>

\* a pipeline that swallows the failure of a stage and goes on
StageCallFailSwallowed(p, o) ==
    LET j == create[p].job_id IN
    /\ create[p].pc = "stage_call"
    /\ providerCalls' = [providerCalls EXCEPT ![j] = Append(@, StageCall(p, o))]
    /\ create' = [create EXCEPT ![p] = [@ EXCEPT !.pc = "stage_end"]]
    /\ UNCHANGED <<dbvars, initial_balance, ratevars, sidevars, cancel, webhooks>>

\* the post times out or raise_for_status raises: control goes to the
\* except block of line 374 with error_data of lines 376-380
StageCallFail(p, o) ==
    LET j == create[p].job_id IN
    /\ create[p].pc = "stage_call"
    /\ providerCalls' = [providerCalls EXCEPT ![j] = Append(@, StageCall(p, o))]
    /\ create' = [create EXCEPT ![p] =
            [@ EXCEPT !.pc = "fail",
                      !.error = [code |-> "pipeline_error", message |-> o,
                                 retryable |-> TRUE]]]
    /\ UNCHANGED <<dbvars, initial_balance, ratevars, sidevars, cancel, webhooks>>

\* lines 312, 336, 359: progress.<stage> = completed
StageEnd(p) ==
    LET j == create[p].job_id
        s == create[p].stage
        n == StageAfter(s, create[p].operations) IN
    /\ create[p].pc = "stage_end"
    /\ UpdateJob(j, [api_jobs[j] EXCEPT !.progress[s] = COMPLETED])
    /\ create' = [create EXCEPT ![p] =
            [@ EXCEPT !.pc = PcForStage(n), !.stage = n]]
    /\ UNCHANGED <<balance, credits_available, initial_balance, ratevars, sidevars,
                   tokenTransactions, cancel, providerCalls, webhooks>>

\* lines 362-366: status completed, results, completed_at
PipelineComplete(p) ==
    LET j == create[p].job_id IN
    /\ create[p].pc = "complete"
    /\ UpdateJob(j, [api_jobs[j] EXCEPT !.status = COMPLETED,
                                        !.results = create[p].results,
                                        !.completed_at = TRUE])
    /\ create' = [create EXCEPT ![p] = [@ EXCEPT !.pc = "completed_get"]]
    /\ UNCHANGED <<balance, credits_available, initial_balance, ratevars, sidevars,
                   tokenTransactions, cancel, providerCalls, webhooks>>

\* what job_doc.to_dict() hands to the rest of the handler
ReadJob(j) ==
    [status |-> api_jobs[j].status, charged |-> api_jobs[j].charged,
     webhook_url |-> api_jobs[j].webhook_url,
     results |-> api_jobs[j].results, error |-> api_jobs[j].error]

\* lines 128-138: create_job returns the response of a new job
Return(p) ==
    [create[p] EXCEPT !.pc = "done", !.outcome = "created",
                      !.response = [job_id |-> create[p].job_id,
                                    status |-> PENDING,
                                    estimated |-> create[p].total_cost]]

\* lines 369-371: the job is read back
CompletedGet(p) ==
    LET j == create[p].job_id
        d == ReadJob(j) IN
    /\ create[p].pc = "completed_get"
    /\ create' = [create EXCEPT ![p] =
            IF d.webhook_url # None
            THEN [@ EXCEPT !.pc = "completed_webhook", !.job_data = d]
            ELSE [Return(p) EXCEPT !.job_data = d]]
    /\ UNCHANGED <<dbvars, initial_balance, ratevars, sidevars, cancel, providerCalls, webhooks>>

\* trigger_webhook, lines 401-428: one POST; its failure is swallowed
WebhookOutcomes == {"ok", "error", "timeout"}
ConcurrentWebhookOutcomes == {"ok", "error"}

\* the value a receiver reads for a signature header that was not sent
NoSignature == <<>>

\* the POST of lines 415-425 carries the json body and no header of its own
trigger_webhook(j, event, d, delivery) ==
    webhooks' = [webhooks EXCEPT ![j] =
        Append(@, [event |-> event, status |-> d.status,
                   results |-> d.results, error |-> d.error,
                   signature |-> NoSignature,
                   delivery |-> delivery])]

\* a dispatch whose delivery error is raised into the try block
CompletedWebhookRaises(p, delivery) ==
    /\ create[p].pc = "completed_webhook"
    /\ trigger_webhook(create[p].job_id, "job.completed", create[p].job_data,
                       delivery)
    /\ create' = [create EXCEPT ![p] =
            IF delivery = "ok" THEN Return(p)
            ELSE [@ EXCEPT !.pc = "fail",
                           !.error = [code |-> "pipeline_error",
                                      message |-> delivery,
                                      retryable |-> TRUE]]]
    /\ UNCHANGED <<dbvars, initial_balance, ratevars, sidevars, cancel,
                   providerCalls>>

\* line 372
CompletedWebhook(p, delivery) ==
    /\ create[p].pc = "completed_webhook"
    /\ trigger_webhook(create[p].job_id, "job.completed", create[p].job_data,
                       delivery)
    /\ create' = [create EXCEPT ![p] = Return(p)]
    /\ UNCHANGED <<dbvars, initial_balance, ratevars, sidevars, cancel, providerCalls>>

\* lines 382-386: status failed, error, completed_at
PipelineFail(p) ==
    LET j == create[p].job_id IN
    /\ create[p].pc = "fail"
    /\ UpdateJob(j, [api_jobs[j] EXCEPT !.status = FAILED,
                                        !.error = create[p].error,
                                        !.completed_at = TRUE])
    /\ create' = [create EXCEPT ![p] = [@ EXCEPT !.pc = "failed_get"]]
    /\ UNCHANGED <<balance, credits_available, initial_balance, ratevars, sidevars,
                   tokenTransactions, cancel, providerCalls, webhooks>>

\* where the except block goes after the refund part
AfterRefund(p, d) ==
    IF d.webhook_url # None
    THEN [create[p] EXCEPT !.pc = "failed_webhook", !.job_data = d]
    ELSE [Return(p) EXCEPT !.job_data = d]

\* lines 389-392: the job is read back
FailedGet(p) ==
    LET j == create[p].job_id
        d == ReadJob(j) IN
    /\ create[p].pc = "failed_get"
    /\ create' = [create EXCEPT ![p] =
            IF d.charged > 0
            THEN [@ EXCEPT !.pc = "failed_refund", !.job_data = d]
            ELSE AfterRefund(p, d)]
    /\ UNCHANGED <<dbvars, initial_balance, ratevars, sidevars, cancel, providerCalls, webhooks>>

\* line 393
FailedRefund(p) ==
    /\ create[p].pc = "failed_refund"
    /\ refund_tokens(create[p].user_id, create[p].job_data.charged,
                     "job_failed", create[p].job_id)
    /\ create' = [create EXCEPT ![p] = [@ EXCEPT !.pc = "failed_refunded"]]
    /\ UNCHANGED <<credits_available, initial_balance, ratevars, sidevars, api_jobs, cancel,
                   providerCalls, webhooks>>

\* line 394: cost.refunded = cost
FailedSetRefunded(p) ==
    LET j == create[p].job_id IN
    /\ create[p].pc = "failed_refunded"
    /\ UpdateJob(j, [api_jobs[j] EXCEPT
                        !.refunded = create[p].job_data.charged])
    /\ create' = [create EXCEPT ![p] = AfterRefund(p, create[p].job_data)]
    /\ UNCHANGED <<balance, credits_available, initial_balance, ratevars, sidevars,
                   tokenTransactions, cancel, providerCalls, webhooks>>

\* lines 397-398
FailedWebhook(p, delivery) ==
    /\ create[p].pc = "failed_webhook"
    /\ trigger_webhook(create[p].job_id, "job.failed", create[p].job_data,
                       delivery)
    /\ create' = [create EXCEPT ![p] = Return(p)]
    /\ UNCHANGED <<dbvars, initial_balance, ratevars, sidevars, cancel, providerCalls>>

\* the Firestore calls of trigger_pipeline that sit inside its try block
\* (lines 285-372): the progress updates, the completed update and the
\* read-back
CaughtWrites == {"stage_begin", "stage_end", "complete", "completed_get"}

\* the Firestore calls after the deduction that no try block covers: the
\* insert of line 123, the processing update of line 280, and the calls of
\* the except block itself (lines 382-394)
UncaughtWrites ==
    {"insert", "start", "fail", "failed_get", "failed_refund",
     "failed_refunded"}

\* a Firestore call inside the try raises: the write is not applied and
\* control goes to the except block of line 374
PersistenceFaultCaught(p) ==
    /\ create[p].pc \in CaughtWrites
    /\ create' = [create EXCEPT ![p] =
            [@ EXCEPT !.pc = "fail",
                      !.error = [code |-> "pipeline_error",
                                 message |-> "persistence",
                                 retryable |-> TRUE]]]
    /\ UNCHANGED <<dbvars, initial_balance, ratevars, sidevars, cancel, providerCalls,
                   webhooks>>

\* a Firestore call outside the try raises: the write is not applied and
\* the exception leaves trigger_pipeline and create_job
PersistenceFaultEscapes(p) ==
    /\ create[p].pc \in UncaughtWrites
    /\ create' = [create EXCEPT ![p] =
            [@ EXCEPT !.pc = "done", !.outcome = "fault"]]
    /\ UNCHANGED <<dbvars, initial_balance, ratevars, sidevars, cancel, providerCalls,
                   webhooks>>

\* ------------------------------------------------- jobs.py: cancel_job
\* cancel_job without the ownership test of line 205
CancellableAnyOwner(job_id, user_id) ==
    /\ job_id \in DOMAIN api_jobs
    /\ api_jobs[job_id].status = PENDING

\* what cancel_job decides from the document it read, lines 200-211
Cancellable(job_id, user_id) ==
    /\ job_id \in DOMAIN api_jobs
    /\ api_jobs[job_id].user_id = user_id
    /\ api_jobs[job_id].status = PENDING

\* lines 196-211: the job is absent, not owned or not pending
CancelRefuse(q, job_id, user_id) ==
    /\ cancel[q].pc = "idle"
    /\ ~Cancellable(job_id, user_id)
    /\ cancel' = [cancel EXCEPT ![q] =
            [@ EXCEPT !.pc = "done", !.job_id = job_id, !.user_id = user_id,
                      !.outcome = FALSE]]
    /\ UNCHANGED <<dbvars, initial_balance, ratevars, sidevars, create, providerCalls, webhooks>>

\* lines 196-211 and 220: the job is read and found pending
CancelRead(q, job_id, user_id) ==
    /\ cancel[q].pc = "idle"
    /\ Cancellable(job_id, user_id)
    /\ cancel' = [cancel EXCEPT ![q] =
            [@ EXCEPT !.pc = "update", !.job_id = job_id, !.user_id = user_id,
                      !.cost = api_jobs[job_id].charged]]
    /\ UNCHANGED <<dbvars, initial_balance, ratevars, sidevars, create, providerCalls, webhooks>>

\* lines 214-217: status cancelled, completed_at
CancelUpdate(q) ==
    LET j == cancel[q].job_id IN
    /\ cancel[q].pc = "update"
    /\ UpdateJob(j, [api_jobs[j] EXCEPT !.status = CANCELLED,
                                        !.completed_at = TRUE])
    /\ cancel' = [cancel EXCEPT ![q] =
            IF cancel[q].cost > 0 THEN [@ EXCEPT !.pc = "refund"]
            ELSE [@ EXCEPT !.pc = "done", !.outcome = TRUE]]
    /\ UNCHANGED <<balance, credits_available, initial_balance, ratevars, sidevars,
                   tokenTransactions, create, providerCalls, webhooks>>

\* line 222
CancelRefund(q) ==
    /\ cancel[q].pc = "refund"
    /\ refund_tokens(cancel[q].user_id, cancel[q].cost, "job_cancelled",
                     cancel[q].job_id)
    /\ cancel' = [cancel EXCEPT ![q] = [@ EXCEPT !.pc = "refunded"]]
    /\ UNCHANGED <<credits_available, initial_balance, ratevars, sidevars, api_jobs, create,
                   providerCalls, webhooks>>

\* cancel_job adding the refund to cost.refunded instead of setting it
CancelSetRefundedAdds(q) ==
    LET j == cancel[q].job_id IN
    /\ cancel[q].pc = "refunded"
    /\ UpdateJob(j, [api_jobs[j] EXCEPT !.refunded = @ + cancel[q].cost])
    /\ cancel' = [cancel EXCEPT ![q] =
            [@ EXCEPT !.pc = "done", !.outcome = TRUE]]
    /\ UNCHANGED <<balance, credits_available, initial_balance, ratevars, sidevars,
                   tokenTransactions, create, providerCalls, webhooks>>

\* lines 223-225: cost.refunded = cost, return True
CancelSetRefunded(q) ==
    LET j == cancel[q].job_id IN
    /\ cancel[q].pc = "refunded"
    /\ UpdateJob(j, [api_jobs[j] EXCEPT !.refunded = cancel[q].cost])
    /\ cancel' = [cancel EXCEPT ![q] =
            [@ EXCEPT !.pc = "done", !.outcome = TRUE]]
    /\ UNCHANGED <<balance, credits_available, initial_balance, ratevars, sidevars,
                   tokenTransactions, create, providerCalls, webhooks>>

\* ------------------------------------------- rate_limit.py: the limiter
get_rate_limit_for_tier(tier) ==
    CASE tier = FREE_TRIAL -> rate_limit_free
      [] tier = CURATOR -> rate_limit_curator
      [] tier = STUDIO -> rate_limit_studio
      [] tier = GALLERY -> rate_limit_gallery
      [] OTHER -> rate_limit_free

\* line 52: the start of the minute that holds t
WindowStart(t) == (t \div 60) * 60

Max(a, b) == IF a > b THEN a ELSE b

\* a limiter that never replaces the window of a key it knows
CurrentWindowKept(key_id, window_start) ==
    IF key_id \notin DOMAIN rate_limits
    THEN RateLimitWindow(0, window_start)
    ELSE rate_limits[key_id]

\* lines 56-57: the window the check counts in
CurrentWindow(key_id, window_start) ==
    IF key_id \notin DOMAIN rate_limits
       \/ rate_limits[key_id].window_start # window_start
    THEN RateLimitWindow(0, window_start)
    ELSE rate_limits[key_id]

\* a count written from a stale read of the window
CountCheckLost(window) == [window EXCEPT !.count = 1]

\* line 60: window.count += 1
CountCheck(window) == [window EXCEPT !.count = @ + 1]

\* a limiter that refuses the call that reaches the limit
ExceededAtLimit(window, limit) == window.count >= limit

\* line 64
Exceeded(window, limit) == window.count > limit

\* a remaining computed from the count before this check
RemainingBeforeCount(window, limit) == Max(0, limit - (window.count - 1))

\* line 62
Remaining(window, limit) == Max(0, limit - window.count)

\* the minute that holds t, for the history
Minute(t) == t - (t % 60)

\* the history of a key after one more check at window_start
RecordCheck(h, window_start, admitted) ==
    IF h.window_start = window_start
    THEN [h EXCEPT !.n = @ + 1,
                   !.admitted = @ + (IF admitted THEN 1 ELSE 0)]
    ELSE [window_start |-> window_start, n |-> 1,
          admitted |-> IF admitted THEN 1 ELSE 0,
          exhausted |-> h.exhausted \/ h.n > h.admitted]

\* check_rate_limit, lines 48-83.  The function is synchronous and is
\* called from a coroutine of the process's one event loop, so that it
\* runs from its first line to its last without another check in between.
check_rate_limit(auth) ==
    LET key_id == auth.key_id
        limit == get_rate_limit_for_tier(auth.tier)
        window_start == WindowStart(now)
        window_reset == window_start + 60
        window == CountCheck(CurrentWindow(key_id, window_start))
        remaining == Remaining(window, limit)
        admitted == ~Exceeded(window, limit)
    IN  /\ window_calls[key_id].window_start = Minute(now)
            => window_calls[key_id].n < MaxChecks
        /\ rate_limits' = (key_id :> window) @@ rate_limits
        /\ rate_result' =
              [key_id |-> key_id, admitted |-> admitted, limit |-> limit,
               remaining |-> IF admitted THEN remaining ELSE 0,
               reset |-> window_reset,
               retry_after |-> IF admitted THEN 0 ELSE window_reset - now]
        /\ window_calls' = [window_calls EXCEPT ![key_id] =
              RecordCheck(@, Minute(now), admitted)]
        /\ UNCHANGED <<jobvars, sidevars, now>>

\* time.time() moves on by a second
Tick ==
    /\ now < MaxTime
    /\ now' = now + 1
    /\ rate_result' = NoRateResult
    /\ UNCHANGED <<jobvars, sidevars, rate_limits, window_calls>>

\* ------------------------------------ routers/jobs.py: POST /jobs
\* jobs.py, lines 71-82 and 128-138: the dict create_job returns, with
\* the keys the service gives it
CreateResult(p) ==
    [job_id |-> create[p].response.job_id,
     status |-> create[p].response.status,
     cost |-> [estimated_aet |-> create[p].response.estimated]]

\* main.py, global_exception_handler, lines 164-190
InternalError == [status_code |-> 500, code |-> "internal_error"]

\* create_job_endpoint, lines 29-63, once create_job has returned or
\* raised: the HTTPException of deduct_tokens is answered 402, any other
\* exception 500, and the response is built from result["cost"]
\* ["estimated_gcx"] (line 56)
create_job_endpoint(p) ==
    IF create[p].outcome = "insufficient_credits"
    THEN [status_code |-> 402, code |-> "insufficient_credits"]
    ELSE IF create[p].outcome = "fault" THEN InternalError
    ELSE LET result == CreateResult(p) IN
         IF "estimated_gcx" \in DOMAIN result.cost
         THEN [status_code |-> 202, job_id |-> result.job_id,
               status |-> result.status,
               estimated |-> result.cost.estimated_gcx]
         ELSE InternalError

\* ------------------------------------ jobs.py: the read-only handlers
\* _transform_job, lines 431-468: the Job a response carries
TransformJob(job_id) ==
    LET d == api_jobs[job_id] IN
    [job_id |-> job_id, status |-> d.status, operations |-> d.operations,
     progress |-> d.progress, results |-> d.results, error |-> d.error,
     estimated |-> d.estimated, charged |-> d.charged,
     refunded |-> d.refunded, created_at |-> d.created_at,
     started_at |-> d.started_at, completed_at |-> d.completed_at]

\* what get_job returns for None
NoJob == [job_id |-> 0]

\* a get_job that hands a job to any account
get_jobAnyOwner(job_id, user_id) ==
    IF job_id \notin DOMAIN api_jobs THEN NoJob
    ELSE TransformJob(job_id)

\* get_job, lines 141-155
get_job(job_id, user_id) ==
    IF job_id \notin DOMAIN api_jobs THEN NoJob
    ELSE IF api_jobs[job_id].user_id # user_id THEN NoJob
    ELSE TransformJob(job_id)

\* routers/jobs.py, lines 112-121 and 143-152: the 404 of both endpoints
NotFound(job_id) ==
    [status_code |-> 404, code |-> "job_not_found", job_id |-> job_id]

\* routers/jobs.py, get_job_endpoint, lines 99-123
get_job_endpoint(job_id, user_id) ==
    LET job == get_job(job_id, user_id) IN
    IF job = NoJob THEN NotFound(job_id)
    ELSE [status_code |-> 200, job |-> job]

\* routers/jobs.py, cancel_job_endpoint, lines 132-154, once cancel_job
\* has returned
cancel_job_endpoint(q) ==
    IF cancel[q].outcome = TRUE THEN [status_code |-> 204]
    ELSE NotFound(cancel[q].job_id)

\* GET /jobs/{job_id}: the answer is held in reads until it is returned
GetJob(job_id, user_id) ==
    /\ reads.op = None
    /\ reads' = [op |-> "get", job_id |-> job_id, user_id |-> user_id,
                 response |-> get_job_endpoint(job_id, user_id)]
    /\ UNCHANGED <<jobvars, ratevars, sdk, client>>

\* an ascending order_by
NewerOldestFirst(j, k) == api_jobs[j].created_at <= api_jobs[k].created_at

\* order_by("created_at", DESCENDING), line 171: j comes no later than k
Newer(j, k) == api_jobs[j].created_at >= api_jobs[k].created_at

\* query.stream(), line 178: the documents of a query in its order
RECURSIVE Stream(_)
Stream(docs) ==
    IF docs = {} THEN <<>>
    ELSE LET first == CHOOSE j \in docs : \A k \in docs : Newer(j, k)
         IN <<first>> \o Stream(docs \ {first})

\* all_docs[offset : offset + limit], line 182
Slice(all_docs, offset, limit) ==
    SubSeq(all_docs, offset + 1,
           IF offset + limit < Len(all_docs) THEN offset + limit
           ELSE Len(all_docs))

\* list_jobs, lines 158-187
list_jobs(user_id, limit, offset, status_filter) ==
    LET query == {j \in DOMAIN api_jobs :
                    /\ api_jobs[j].user_id = user_id
                    /\ status_filter # None =>
                         api_jobs[j].status = status_filter}
        all_docs == Stream(query)
        paginated_docs == Slice(all_docs, offset, limit)
    IN [jobs |-> [i \in DOMAIN paginated_docs |->
                    TransformJob(paginated_docs[i])],
        pagination |-> [total |-> Len(all_docs), limit |-> limit,
                        offset |-> offset]]

\* GET /jobs, routers/jobs.py lines 66-90
ListJobs(user_id, limit, offset, status_filter) ==
    /\ reads.op = None
    /\ reads' = [op |-> "list", user_id |-> user_id,
                 status_filter |-> status_filter,
                 response |-> list_jobs(user_id, limit, offset,
                                        status_filter)]
    /\ UNCHANGED <<jobvars, ratevars, sdk, client>>

\* --------------------------------------------- routers/estimate.py
\* schemas.py, FluxOptions.model, line 61
FluxModels == {"2x", "4x", "anime", "photo"}

\* history: the cost each flux model was estimated at so far
FluxCostsSeen == IF reads.op = "estimate" THEN reads.flux_costs ELSE <<>>

\* POST /estimate, estimate_cost_endpoint, lines 18-40
Estimate(user_id, operations, options) ==
    LET total_cost == calculate_cost(operations, options)
        items == breakdown(operations, options)
        model == IF options.flux # None THEN options.flux ELSE "4x"
    IN
    /\ reads' = [op |-> "estimate", operations |-> operations,
                 options |-> options,
                 flux_costs |->
                    IF FLUX \in DOMAIN items
                    THEN [m \in DOMAIN FluxCostsSeen \cup {model} |->
                            IF m = model THEN items[FLUX]
                            ELSE FluxCostsSeen[m]]
                    ELSE FluxCostsSeen,
                 response |->
                    [estimated_aet |-> total_cost, breakdown |-> items,
                     current_balance |-> current_balance(user_id),
                     sufficient_balance |->
                        current_balance(user_id) >= total_cost]]
    /\ UNCHANGED <<jobvars, ratevars, sdk, client>>

\* the answer of a read-only endpoint is returned to its caller
Respond ==
    /\ reads.op # None
    /\ reads' = NoRead
    /\ UNCHANGED <<jobvars, ratevars, sdk, client>>

\* ------------------------------------- sdks/python: webhooks.py
\* A text is a sequence of characters; C(x) is the character x.  A
\* hexdigest is one element of a text: it holds no comma and no equals
\* sign, and it stands for its key and message (the hash is taken to be
\* free of collisions).
C(x) == [c |-> x]

Digits ==
    <<C("0"), C("1"), C("2"), C("3"), C("4"), C("5"), C("6"), C("7"),
      C("8"), C("9")>>

\* str(n) of a natural number
RECURSIVE Str(_)
Str(n) ==
    IF n < 10 THEN <<Digits[n + 1]>>
    ELSE Str(n \div 10) \o <<Digits[(n % 10) + 1]>>

IsDigit(ch) == \E d \in 1..10 : Digits[d] = ch

DigitValue(ch) == (CHOOSE d \in 1..10 : Digits[d] = ch) - 1

\* int(text) succeeds (line 58)
IsInt(text) == text # <<>> /\ \A i \in 1..Len(text) : IsDigit(text[i])

\* int(text) of a text of digits
RECURSIVE ParseInt(_)
ParseInt(text) ==
    IF Len(text) = 0 THEN 0
    ELSE 10 * ParseInt(SubSeq(text, 1, Len(text) - 1))
         + DigitValue(text[Len(text)])

\* the first place of character ch in text, 0 if there is none
FirstIndex(text, ch) ==
    IF \E i \in 1..Len(text) : text[i] = ch
    THEN CHOOSE i \in 1..Len(text) :
            text[i] = ch /\ \A k \in 1..(i - 1) : text[k] # ch
    ELSE 0

\* text.split(ch)
RECURSIVE Split(_, _)
Split(text, ch) ==
    LET i == FirstIndex(text, ch) IN
    IF i = 0 THEN <<text>>
    ELSE <<SubSeq(text, 1, i - 1)>>
         \o Split(SubSeq(text, i + 1, Len(text)), ch)

\* lines 45-52: parts.get(key) after the loop over signature.split(",");
\* the empty text stands for a key that is missing
HeaderPart(signature, key) ==
    LET parts == Split(signature, C(","))
        I == {i \in 1..Len(parts) :
                /\ FirstIndex(parts[i], C("=")) # 0
                /\ SubSeq(parts[i], 1, FirstIndex(parts[i], C("=")) - 1) = key}
    IN  IF I = {} THEN <<>>
        ELSE LET i == CHOOSE x \in I : \A y \in I : y <= x
             IN  SubSeq(parts[i], FirstIndex(parts[i], C("=")) + 1,
                        Len(parts[i]))

\* hmac.new(secret, message, sha256).hexdigest()
hmac_sha256(secret, message) == [key |-> secret, msg |-> message]

\* a receiver that signs the timestamp without the payload
SignedMessageNoPayload(timestamp, payload) == Str(timestamp) \o <<C(".")>>

\* lines 70 and 103: f"{timestamp}.{payload}"
SignedMessage(timestamp, payload) == Str(timestamp) \o <<C(".")>> \o payload

Abs(n) == IF n < 0 THEN -n ELSE n

\* an age test that forgets timestamps of the future
TooOldPastOnly(clock, timestamp, max_age) == clock - timestamp > max_age

\* line 64
TooOld(clock, timestamp, max_age) == Abs(clock - timestamp) > max_age

\* the timestamp argument left at its default None
NoTimestamp == -1

\* generate_webhook_signature, lines 78-107; clock is what time.time()
\* returns
generate_webhook_signature(payload, secret, timestamp, clock) ==
    LET t == IF timestamp = NoTimestamp THEN clock ELSE timestamp IN
    <<C("t"), C("=")>> \o Str(t) \o <<C(","), C("v"), C("1"), C("=")>>
    \o <<hmac_sha256(secret, SignedMessage(t, payload))>>

\* verify_webhook_signature, lines 8-75; clock is what time.time() returns
verify_webhook_signature(payload, signature, secret, max_age, clock) ==
    LET timestamp_str == HeaderPart(signature, <<C("t")>>)
        hash_value == HeaderPart(signature, <<C("v"), C("1")>>)
    IN  IF signature = <<>> THEN FALSE
        ELSE IF timestamp_str = <<>> \/ hash_value = <<>> THEN FALSE
        ELSE IF ~IsInt(timestamp_str) THEN FALSE
        ELSE IF TooOld(clock, ParseInt(timestamp_str), max_age) THEN FALSE
        ELSE hash_value =
                <<hmac_sha256(secret,
                     SignedMessage(ParseInt(timestamp_str), payload))>>

\* the default of max_age, line 12
DefaultMaxAge == 300

\* the receiver (or a test) signs a payload
Sign(payload, secret, timestamp, clock) ==
    /\ sdk.op = None
    /\ sdk' = [op |-> "signed", payload |-> payload, secret |-> secret,
               timestamp |-> IF timestamp = NoTimestamp THEN clock
                             ELSE timestamp,
               signature |->
                   generate_webhook_signature(payload, secret, timestamp,
                                              clock)]
    /\ UNCHANGED <<jobvars, ratevars, reads, client>>

\* the receiver verifies a body against the signature it was handed
Verify(payload, secret, max_age, clock) ==
    /\ sdk.op = "signed"
    /\ sdk' = [op |-> "verified", payload |-> sdk.payload,
               secret |-> sdk.secret, timestamp |-> sdk.timestamp,
               signature |-> sdk.signature,
               v_payload |-> payload, v_secret |-> secret,
               max_age |-> max_age, clock |-> clock,
               result |-> verify_webhook_signature(payload, sdk.signature,
                                                   secret, max_age, clock)]
    /\ UNCHANGED <<jobvars, ratevars, reads, client>>

\* ------------------------------------- sdks/python: client.py
\* httpx: response.is_success
is_success(status_code) == status_code \in 200 .. 299

\* BaseClient._handle_error, lines 87-124: the error a status is mapped to
handle_error(status_code) ==
    IF status_code = 401 THEN "AuthenticationError"
    ELSE IF status_code = 402 THEN "InsufficientCreditsError"
    ELSE IF status_code = 404 THEN "NotFoundError"
    ELSE IF status_code = 429 THEN "RateLimitError"
    ELSE IF status_code = 400 THEN "ValidationError"
    ELSE "APIError"

\* a retry test that admits one retry more
RetryableInclusive(status_code, retry, max_retries) ==
    status_code \in {429, 500, 502, 503} /\ retry <= max_retries

\* _request, line 191: the test for a retry
Retryable(status_code, retry, max_retries) ==
    status_code \in {429, 500, 502, 503} /\ retry < max_retries

\* JobsAPI.create, lines 372-387: the request_id argument goes neither
\* into the body nor into a header, so the gateway reads no X-Request-Id
XRequestId(request_id) == None

\* a client constructed with max_retries calls _request (retry = 0);
\* request_id is the argument of jobs.create, None for any other call
ClientCall(max_retries, request_id) ==
    /\ client.pc = "idle"
    /\ client' = [IdleClient EXCEPT !.pc = "send",
                                    !.max_retries = max_retries,
                                    !.request_id = request_id]
    /\ UNCHANGED <<jobvars, ratevars, reads, sdk>>

\* _request, line 183: self._client.request sends the request; handler is
\* the gateway handler that will serve it
ClientSend(handler) ==
    /\ client.pc = "send"
    /\ client' = [client EXCEPT !.pc = "wait", !.sends = @ + 1,
                                !.handler = handler]
    /\ UNCHANGED <<jobvars, ratevars, reads, sdk>>

\* _request, lines 184-185: the transport times out, TimeoutError is
\* raised and nothing is retried
ClientTimeout ==
    /\ client.pc = "wait"
    /\ client' = [client EXCEPT !.pc = "done", !.outcome = "TimeoutError"]
    /\ UNCHANGED <<jobvars, ratevars, reads, sdk>>

\* _request, lines 187-204: a response with this status arrives
ClientReceive(status_code) ==
    /\ client.pc = "wait"
    /\ client' =
        LET c == [client EXCEPT !.statuses = Append(@, status_code)] IN
        IF is_success(status_code)
        THEN [c EXCEPT !.pc = "done", !.outcome = "returned"]
        ELSE IF Retryable(status_code, client.retry, client.max_retries)
        THEN [c EXCEPT !.pc = "send", !.retry = @ + 1]
        ELSE [c EXCEPT !.pc = "done",
                       !.outcome = handle_error(status_code)]
    /\ UNCHANGED <<jobvars, ratevars, reads, sdk>>

\* ----------------------------------------------------------- specification
\* the steps of one create_job handler after its idempotency query;
\* Deliveries are the outcomes drawn for a webhook POST, Bodies tells
\* whether a provider's 2xx body carries the stage's output field
CreateStep(p, Deliveries, Bodies) ==
    \/ CreateInsufficient(p)
    \/ CreateDeduct(p)
    \/ CreateInsert(p)
    \/ PipelineStart(p)
    \/ StageBegin(p)
    \/ \E full \in Bodies : StageCallOk(p, full)
    \/ \E o \in StageFailures : StageCallFail(p, o)
    \/ StageEnd(p)
    \/ PipelineComplete(p)
    \/ CompletedGet(p)
    \/ \E d \in Deliveries : CompletedWebhook(p, d)
    \/ PipelineFail(p)
    \/ FailedGet(p)
    \/ FailedRefund(p)
    \/ FailedSetRefunded(p)
    \/ \E d \in Deliveries : FailedWebhook(p, d)

\* two concurrent create_job handlers
Next ==
    \/ \E p \in CreateProcs, user_id \in Users, request_id \in RequestIds,
          r \in JobRequests, webhook_url \in WebhookUrls :
            CreateReplay(p, user_id, request_id, r.operations, r.options,
                         webhook_url)
    \/ \E p \in CreateProcs, user_id \in Users, request_id \in RequestIds,
          r \in JobRequests, webhook_url \in WebhookUrls :
            CreateCheck(p, user_id, request_id, r.operations, r.options,
                        webhook_url)
    \/ \E p \in CreateProcs : CreateStep(p, ConcurrentWebhookOutcomes, {TRUE})

Spec == Init /\ [][Next]_vars

\* one create_job handler against one cancel_job handler
NextCancel ==
    \/ \E user_id \in Users, request_id \in RequestIds,
          r \in CancelJobRequests, webhook_url \in WebhookUrls :
            CreateCheck("c1", user_id, request_id, r.operations, r.options,
                        webhook_url)
    \/ CreateStep("c1", WebhookOutcomes, BOOLEAN)
    \/ \E q \in CancelProcs, job_id \in JobIds, user_id \in Users :
            CancelRefuse(q, job_id, user_id)
    \/ \E q \in CancelProcs, job_id \in JobIds, user_id \in Users :
            CancelRead(q, job_id, user_id)
    \/ \E q \in CancelProcs : CancelUpdate(q)
    \/ \E q \in CancelProcs : CancelRefund(q)
    \/ \E q \in CancelProcs : CancelSetRefunded(q)

SpecCancel == Init /\ [][NextCancel]_vars

\* one create_job handler whose Firestore calls may raise
NextFault ==
    \/ \E user_id \in Users, request_id \in RequestIds,
          r \in JobRequests, webhook_url \in WebhookUrls :
            CreateCheck("c1", user_id, request_id, r.operations, r.options,
                        webhook_url)
    \/ CreateStep("c1", WebhookOutcomes, BOOLEAN)
    \/ PersistenceFaultCaught("c1")
    \/ PersistenceFaultEscapes("c1")

SpecFault == Init /\ [][NextFault]_vars

\* the handler is a coroutine the event loop keeps resuming: whenever it
\* can take its next step it eventually does, and every provider call and
\* every Firestore call eventually returns or raises
SpecFaultLive ==
    SpecFault /\ WF_vars(CreateStep("c1", WebhookOutcomes, BOOLEAN))

\* one create_job handler alone, with every outcome of the webhook POST
NextHook ==
    \/ \E user_id \in Users, request_id \in RequestIds,
          r \in CancelJobRequests, webhook_url \in WebhookUrls :
            CreateCheck("c1", user_id, request_id, r.operations, r.options,
                        webhook_url)
    \/ CreateStep("c1", WebhookOutcomes, BOOLEAN)

SpecHook == Init /\ [][NextHook]_vars

\* the same handler where no Firestore call raises
SpecHookLive ==
    SpecHook /\ WF_vars(CreateStep("c1", WebhookOutcomes, BOOLEAN))

\* what the receiver signs and verifies
PayloadChars == {[c |-> "a"], [c |-> "1"], [c |-> "."]}
Payloads ==
    UNION {[1..n -> PayloadChars] : n \in 0..MaxPayloadLen}
Secrets == {"whsec_1", "whsec_2"}
SignTimes == {0, DefaultMaxAge + 1}
MaxAges == {1, DefaultMaxAge}
ClockOffsets == {0, 1, 2, DefaultMaxAge, DefaultMaxAge + 1}
VerifyTimes ==
    {t + d : t \in SignTimes, d \in ClockOffsets}
    \cup {t - d : t \in {DefaultMaxAge + 1}, d \in ClockOffsets}

\* one signature made and verified by the SDK
NextSign ==
    \/ \E payload \in Payloads, secret \in Secrets,
          timestamp \in {NoTimestamp, DefaultMaxAge + 1}, clock \in SignTimes :
            Sign(payload, secret, timestamp, clock)
    \/ \E payload \in Payloads, secret \in Secrets, max_age \in MaxAges,
          clock \in VerifyTimes :
            Verify(payload, secret, max_age, clock)

\* one create_job handler, one cancel_job handler and the GET of a job;
\* the other handlers take their steps before a GET or after its answer
\* was returned
NextGet ==
    \/ /\ reads.op = None
       /\ \/ \E user_id \in Users, r \in JobRequests :
                CreateCheck("c1", user_id, None, r.operations, r.options,
                            None)
          \/ CreateStep("c1", {"ok"}, {TRUE})
          \/ \E q \in CancelProcs, job_id \in JobIds, user_id \in Users :
                CancelRefuse(q, job_id, user_id)
          \/ \E q \in CancelProcs, job_id \in JobIds, user_id \in Users :
                CancelRead(q, job_id, user_id)
          \/ \E q \in CancelProcs : CancelUpdate(q)
          \/ \E q \in CancelProcs : CancelRefund(q)
          \/ \E q \in CancelProcs : CancelSetRefunded(q)
    \/ \E job_id \in JobIds, user_id \in Users : GetJob(job_id, user_id)
    \/ Respond

SpecGet == Init /\ [][NextGet]_vars

\* two create_job handlers and the listing of an account's jobs
ListLimits == 1 .. MaxJobs
ListOffsets == 0 .. MaxJobs
ListFilters == {None, PROCESSING, COMPLETED}
NextList ==
    \/ /\ reads.op = None
       /\ \/ \E p \in CreateProcs, user_id \in Users :
                CreateCheck(p, user_id, None, <<NOVA>>, NoOptions, None)
          \/ \E p \in CreateProcs : CreateStep(p, {"ok"}, {TRUE})
    \/ \E user_id \in Users, limit \in ListLimits, offset \in ListOffsets,
          status_filter \in ListFilters :
            ListJobs(user_id, limit, offset, status_filter)
    \/ Respond

\* the estimate endpoint alone, called by one account over lists of
\* operations with repeated entries and every choice of options
EstimateOperations ==
    {<<NOVA, FLUX, ATLAS>>} \cup
    UNION {[1..n -> Operation] : n \in 0..MaxOps}
EstimateOptions ==
    {[nova |-> t, flux |-> m] :
        t \in {None, "standard", "full_gcx"}, m \in {None} \cup FluxModels}
NextEstimate ==
    \E user_id \in {"u1"}, operations \in EstimateOperations,
       options \in EstimateOptions :
        Estimate(user_id, operations, options)

\* one _request call of the SDK against a server that answers anything
ClientMaxRetries == 0 .. MaxRetries
StatusCodes == {200, 202, 400, 401, 402, 404, 429, 500, 502, 503, 504}
NextRequest ==
    \/ \E max_retries \in ClientMaxRetries : ClientCall(max_retries, None)
    \/ ClientSend(None)
    \/ ClientTimeout
    \/ \E status_code \in StatusCodes : ClientReceive(status_code)

\* the SDK's jobs.create with a request_id against the gateway: every
\* request it sends is served by a create_job handler of its own, and the
\* request carries no X-Request-Id, so the handler's idempotency query is
\* skipped (jobs.py line 61)
NextSdkCreate ==
    \/ \E max_retries \in ClientMaxRetries, request_id \in RequestIds \ {None} :
            ClientCall(max_retries, request_id)
    \/ \E p \in CreateProcs :
            /\ create[p].pc = "idle"
            /\ ClientSend(p)
    \/ \E p \in CreateProcs, r \in JobRequests, webhook_url \in WebhookUrls :
            /\ client.pc = "wait" /\ client.handler = p
            /\ CreateCheck(p, "u1", XRequestId(client.request_id),
                           r.operations, r.options, webhook_url)
    \/ \E p \in CreateProcs : CreateStep(p, {"ok"}, {TRUE})
    \/ ClientTimeout
    \/ /\ client.handler \in CreateProcs
       /\ create[client.handler].pc = "done"
       /\ ClientReceive(create_job_endpoint(client.handler).status_code)

\* the limiter of one gateway process under the requests of two keys
NextRate ==
    \/ \E auth \in AuthContexts : check_rate_limit(auth)
    \/ Tick

\* the limiter reads no account: the accounts are fixed at MaxBalance
InitRate == Init /\ \A u \in Users : balance[u] = MaxBalance

SpecRate == InitRate /\ [][NextRate]_vars

\* the SDK reads no account either
SpecList == InitRate /\ [][NextList]_vars
SpecEstimate == InitRate /\ [][NextEstimate]_vars
SpecRequest == InitRate /\ [][NextRequest]_vars
\* the server answers every request or the transport times out, and the
\* client's own code runs on
SpecRequestLive ==
    /\ SpecRequest
    /\ WF_vars(ClientSend(None))
    /\ WF_vars(ClientTimeout \/ \E status_code \in StatusCodes :
                                    ClientReceive(status_code))
SpecSdkCreate == Init /\ [][NextSdkCreate]_vars
SpecSign == InitRate /\ [][NextSign]_vars


\* ------------------------------------------------------------ the claims
Terminated(r) == r.pc \in {"idle", "done"}

\* no handler is between two of its steps
Quiescent ==
    /\ \A p \in CreateProcs : Terminated(create[p])
    /\ \A q \in CancelProcs : Terminated(cancel[q])

JobsOf(u) == {j \in DOMAIN api_jobs : api_jobs[j].user_id = u}

RECURSIVE NetCharge(_)
NetCharge(J) ==
    IF J = {} THEN 0
    ELSE LET j == CHOOSE x \in J : TRUE
         IN  api_jobs[j].charged - api_jobs[j].refunded + NetCharge(J \ {j})

TxOf(u, type, j) ==
    {i \in 1..Len(tokenTransactions[u]) :
        /\ tokenTransactions[u][i].type = type
        /\ tokenTransactions[u][i].job_id = j}

RECURSIVE Deducted(_, _)
Deducted(u, n) ==
    IF n = 0 THEN 0
    ELSE (IF tokenTransactions[u][n].type = "deduction"
          THEN tokenTransactions[u][n].amount ELSE 0) + Deducted(u, n - 1)

\* C1: ledger conservation.  Whenever no handler is in flight, for every
\* account the balance it started with minus the balance it has now equals
\* the sum of charged - refunded over the account's jobs.
C1_LedgerConservation ==
    Quiescent =>
        \A u \in Users :
            initial_balance[u] - current_balance(u) = NetCharge(JobsOf(u))

\* C2: two create calls with the same account and idempotency key that
\* both return a job return the same job id, and that key then has exactly
\* one job record and exactly one deduction.
C2_OneJobPerKey ==
    \A p1, p2 \in CreateProcs :
        ( /\ p1 # p2
          /\ create[p1].pc = "done" /\ create[p2].pc = "done"
          /\ create[p1].outcome \in {"created", "replayed"}
          /\ create[p2].outcome \in {"created", "replayed"}
          /\ create[p1].request_id # None
          /\ create[p1].request_id = create[p2].request_id
          /\ create[p1].user_id = create[p2].user_id )
        => LET u == create[p1].user_id
               J == {j \in DOMAIN api_jobs :
                        /\ api_jobs[j].user_id = u
                        /\ api_jobs[j].request_id = create[p1].request_id}
           IN  /\ create[p1].response.job_id = create[p2].response.job_id
               /\ Cardinality(J) = 1
               /\ Cardinality(UNION {TxOf(u, "deduction", j) : j \in J}) = 1

\* C3: a create call whose idempotency key already has a job of that
\* account returns one such job as stored and changes neither a balance,
\* nor the transaction records, nor a job record, nor the provider calls,
\* nor the webhook dispatches.
C3_ReplayHasNoEffect ==
    [][\A p \in CreateProcs :
        LET J == {j \in DOMAIN api_jobs :
                     /\ api_jobs[j].user_id = create'[p].user_id
                     /\ api_jobs[j].request_id = create'[p].request_id}
        IN  ( /\ create[p].pc = "idle" /\ create'[p].pc # "idle"
              /\ create'[p].request_id # None
              /\ J # {} )
            => /\ create'[p].pc = "done"
               /\ create'[p].response.job_id \in J
               /\ create'[p].response.status =
                      api_jobs[create'[p].response.job_id].status
               /\ create'[p].response.estimated =
                      api_jobs[create'[p].response.job_id].estimated
               /\ UNCHANGED <<balance, credits_available, tokenTransactions,
                              api_jobs, providerCalls, webhooks>>]_vars

\* a replay happened, and its request named other operations than the job has
C3_Witness ==
    \E p \in CreateProcs :
        /\ create[p].outcome = "replayed"
        /\ create[p].operations #
               api_jobs[create[p].response.job_id].operations
        /\ Len(tokenTransactions[create[p].user_id]) > 0

LegalTransition(from, to) ==
    \/ from = to
    \/ from = PENDING /\ to \in {PROCESSING, CANCELLED}
    \/ from = PROCESSING /\ to \in {COMPLETED, FAILED}

\* C4: every write to a job's status follows PENDING -> PROCESSING ->
\* {COMPLETED, FAILED} or PENDING -> CANCELLED.
C4_StatusMonotonic ==
    [][\A j \in DOMAIN api_jobs :
          LegalTransition(api_jobs[j].status, api_jobs'[j].status)]_vars

\* C5: every job has exactly one deduction transaction and at most one
\* refund transaction.
C5_OneDeductionOneRefund ==
    \A j \in DOMAIN api_jobs :
        LET u == api_jobs[j].user_id
        IN  /\ Cardinality(TxOf(u, "deduction", j)) = 1
            /\ Cardinality(TxOf(u, "refund", j)) <= 1

\* C6: every stored job has a deduction of its charged amount in its
\* owner's ledger, taken from the balance the owner had; a create that
\* failed for insufficient credits has no job id, and every job record and
\* every provider call belongs to a create whose deduction succeeded.
C6_FundsBeforeJob ==
    /\ \A j \in DOMAIN api_jobs :
          \E i \in TxOf(api_jobs[j].user_id, "deduction", j) :
              /\ tokenTransactions[api_jobs[j].user_id][i].amount
                    = api_jobs[j].charged
              /\ tokenTransactions[api_jobs[j].user_id][i].balance_after >= 0
    /\ \A p \in CreateProcs :
          create[p].outcome = "insufficient_credits" => create[p].job_id = 0
    /\ \A j \in JobIds :
          (j \in DOMAIN api_jobs \/ providerCalls[j] # <<>>)
          => \E p \in CreateProcs :
                /\ create[p].job_id = j
                /\ create[p].outcome # "insufficient_credits"
                /\ TxOf(create[p].user_id, "deduction", j) # {}

\* one create was refused for insufficient credits and left nothing behind
\* while another one has its job stored
C6_Witness ==
    /\ \E p \in CreateProcs : create[p].outcome = "insufficient_credits"
    /\ \E j \in DOMAIN api_jobs : api_jobs[j].charged > 0

\* C7: a reserve succeeds exactly when the amount is at most the account's
\* balance, and the balance is then the old balance minus the amount;
\* otherwise it fails and changes neither the balance nor the records.
C7_ReserveLaw ==
    [][\A p \in CreateProcs :
        (create[p].pc = "deduct" /\ create'[p].pc # "deduct")
        => LET u == create[p].user_id
               amount == create[p].total_cost
           IN  IF amount <= current_balance(u)
               THEN /\ create'[p].pc = "insert"
                    /\ current_balance(u)' = current_balance(u) - amount
               ELSE /\ create'[p].outcome = "insufficient_credits"
                    /\ UNCHANGED <<balance, credits_available,
                                   tokenTransactions>>]_vars

\* C8: as long as an account was refunded nothing, the deductions made
\* from it never add up to more than the balance it started with.
C8_NoDoubleSpend ==
    \A u \in Users :
        (\A i \in 1..Len(tokenTransactions[u]) :
            tokenTransactions[u][i].type = "deduction")
        => Deducted(u, Len(tokenTransactions[u])) <= initial_balance[u]

\* the handler went through the except block of trigger_pipeline
PipelineFailed(p) == create[p].pc = "done" /\ create[p].error.code # None

RECURSIVE Refunded(_, _, _)
Refunded(u, j, n) ==
    IF n = 0 THEN 0
    ELSE (IF /\ tokenTransactions[u][n].type = "refund"
             /\ tokenTransactions[u][n].job_id = j
          THEN tokenTransactions[u][n].amount ELSE 0) + Refunded(u, j, n - 1)

\* C9: once create has handled a stage failure, the job is FAILED with a
\* retryable error, its refunded amount equals its charged amount and the
\* account got back exactly the charged amount.
C9_FailureRefundsAll ==
    \A p \in CreateProcs :
        PipelineFailed(p) =>
            LET j == create[p].job_id
                u == create[p].user_id
            IN  /\ api_jobs[j].status = FAILED
                /\ api_jobs[j].error.retryable
                /\ api_jobs[j].refunded = api_jobs[j].charged
                /\ Refunded(u, j, Len(tokenTransactions[u]))
                      = api_jobs[j].charged

\* C10: a job that asked for nova and flux, whose nova call succeeded and
\* whose flux call failed, ends FAILED with progress.nova completed, a
\* progress.flux that marks the failure, and the whole charge refunded.
C10_StageBFailure ==
    \A p \in CreateProcs :
        ( /\ PipelineFailed(p)
          /\ create[p].stage = FLUX
          /\ Has(NOVA, create[p].operations) )
        => LET j == create[p].job_id
           IN  /\ api_jobs[j].status = FAILED
               /\ api_jobs[j].progress[NOVA] = COMPLETED
               /\ api_jobs[j].progress[FLUX]
                     \notin {None, PENDING, PROCESSING, COMPLETED}
               /\ api_jobs[j].refunded = api_jobs[j].charged
               /\ api_jobs[j].charged = create[p].total_cost

\* the refund records of job j sum to n
RefundedTotal(u, j) ==
    LET RECURSIVE Sum(_)
        Sum(n) == IF n = 0 THEN 0
                  ELSE (IF /\ tokenTransactions[u][n].type = "refund"
                           /\ tokenTransactions[u][n].job_id = j
                        THEN tokenTransactions[u][n].amount ELSE 0)
                       + Sum(n - 1)
    IN  Sum(Len(tokenTransactions[u]))

\* the handler has deducted the job's cost
Reserved(p) == TxOf(create[p].user_id, "deduction", create[p].job_id) # {}

\* C11: every fault after the reserve succeeded, from a persistence call
\* or from a provider call, is caught: once the handler has ended with a
\* fault, the fault did not escape create, the job is stored with status
\* failed, and its whole charge is refunded, in the job record and in the
\* ledger.
C11_FaultsEndFailedRefunded ==
    \A p \in CreateProcs :
        LET j == create[p].job_id
            u == create[p].user_id IN
        ( /\ create[p].pc = "done"
          /\ j # 0 /\ Reserved(p)
          /\ (create[p].outcome = "fault" \/ create[p].error.code # None) )
        => /\ create[p].outcome # "fault"
           /\ j \in DOMAIN api_jobs
           /\ api_jobs[j].status = FAILED
           /\ api_jobs[j].refunded = api_jobs[j].charged
           /\ RefundedTotal(u, j) = api_jobs[j].charged

\* cancel handler q returns in this step
CancelReturns(q) == cancel[q].pc # "done" /\ cancel'[q].pc = "done"

\* C12: a cancel by the owner that found the job pending returns true, and
\* when it returns the job has status cancelled, refunded = charged and a
\* completion time; the refund it makes raises the balance the account is
\* reported to have by charged.
C12_CancelPending ==
    [][\A q \in CancelProcs :
        LET j == cancel[q].job_id
            u == cancel[q].user_id IN
        /\ ( CancelReturns(q) /\ cancel[q].pc # "idle" )
           => /\ cancel'[q].outcome = TRUE
              /\ api_jobs'[j].status = CANCELLED
              /\ api_jobs'[j].refunded = api_jobs'[j].charged
              /\ api_jobs'[j].completed_at
        /\ ( cancel[q].pc = "refund" /\ cancel'[q].pc = "refunded" )
           => current_balance(u)' = current_balance(u) + api_jobs[j].charged
      ]_vars

\* C13: a cancel that names a job which is absent, owned by another
\* account, or in a status other than pending returns false at once and
\* changes no job record, no balance and no transaction record.
C13_CancelRefusedChangesNothing ==
    [][\A q \in CancelProcs :
        LET j == cancel'[q].job_id
            u == cancel'[q].user_id IN
        ( /\ cancel[q].pc = "idle" /\ cancel'[q].pc # "idle"
          /\ \/ j \notin DOMAIN api_jobs
             \/ api_jobs[j].user_id # u
             \/ api_jobs[j].status # PENDING )
        => /\ cancel'[q].pc = "done"
           /\ cancel'[q].outcome = FALSE
           /\ UNCHANGED <<balance, credits_available, tokenTransactions,
                          api_jobs>>
      ]_vars

\* a cancel was refused on a pending job that another account owns
C13_Witness ==
    \E q \in CancelProcs :
        /\ cancel[q].pc = "done" /\ cancel[q].outcome = FALSE
        /\ cancel[q].job_id \in DOMAIN api_jobs
        /\ api_jobs[cancel[q].job_id].user_id # cancel[q].user_id
        /\ api_jobs[cancel[q].job_id].status = PENDING

\* C14: after every step every job has 0 <= refunded <= charged, its
\* charged amount is the cost computed from the operations and options it
\* was created with, and the charged amount of a job that existed before
\* the step is what it was.
C14_ChargedFixedRefundBounded ==
    [][\A j \in DOMAIN api_jobs' :
        /\ 0 <= api_jobs'[j].refunded
        /\ api_jobs'[j].refunded <= api_jobs'[j].charged
        /\ api_jobs'[j].charged =
               calculate_cost(api_jobs'[j].operations, api_jobs'[j].options)
        /\ j \in DOMAIN api_jobs
              => /\ api_jobs'[j].charged = api_jobs[j].charged
                 /\ api_jobs'[j].operations = api_jobs[j].operations
                 /\ api_jobs'[j].options = api_jobs[j].options
      ]_vars

\* a cancelled or failed job of several operations whose whole charge is
\* marked refunded
C14_Witness ==
    \E j \in DOMAIN api_jobs :
        /\ api_jobs[j].status \in {CANCELLED, FAILED}
        /\ api_jobs[j].charged > 0
        /\ api_jobs[j].refunded = api_jobs[j].charged
        /\ Len(api_jobs[j].operations) > 1

\* the limit of the tier that key k was issued for
LimitOf(k) ==
    get_rate_limit_for_tier((CHOOSE auth \in AuthContexts :
                                auth.key_id = k).tier)

\* C15: for one key with limit L, the n-th check of an aligned 60-second
\* window is admitted when n <= L, and the check number L+1 is refused
\* with remaining = 0 and a retry_after that is the number of seconds to
\* the next window boundary, between 0 and 60.
C15_LimitPlusOneRefused ==
    rate_result.key_id # None =>
        LET k == rate_result.key_id
            n == window_calls[k].n
            L == LimitOf(k) IN
        /\ L >= 1 /\ rate_result.limit = L
        /\ n <= L => rate_result.admitted
        /\ n = L + 1 =>
              /\ ~rate_result.admitted
              /\ rate_result.remaining = 0
              /\ rate_result.retry_after = 60 - (now % 60)
              /\ 0 <= rate_result.retry_after
              /\ rate_result.retry_after <= 60

\* the check number L+1 of a window was just refused, late in the window
C15_Witness ==
    /\ rate_result.key_id = "ka"
    /\ window_calls["ka"].n = rate_limit_free + 1
    /\ ~rate_result.admitted
    /\ rate_result.retry_after < 60

\* C16: a check on key K changes the window of no other key, and the
\* first check on K in a later window (or the first ever) leaves K's count
\* at 1 and is admitted, whatever the count of K's earlier window was.
C16_WindowsPerKeyLazy ==
    [][rate_limits' # rate_limits =>
        LET K == rate_result'.key_id IN
        /\ K \in KeyIds
        /\ DOMAIN rate_limits' = DOMAIN rate_limits \cup {K}
        /\ \A k \in DOMAIN rate_limits \ {K} :
                rate_limits'[k] = rate_limits[k]
        /\ window_calls[K].window_start # Minute(now)
              => /\ rate_limits'[K].count = 1
                 /\ rate_limits'[K].window_start = Minute(now)
                 /\ rate_result'.admitted
      ]_vars

\* a key refused in the first window was just admitted in the second,
\* while the other key still holds the window of its last check
C16_Witness ==
    /\ rate_result.key_id = "ka" /\ rate_result.admitted
    /\ window_calls["ka"].exhausted
    /\ window_calls["ka"].n = 1
    /\ "kb" \in DOMAIN rate_limits
    /\ rate_limits["kb"].window_start < Minute(now)
    /\ rate_limits["kb"].count > 1

\* C17: no check is lost: the counter of a key's window equals the number
\* of checks made on the key in that window, and the checks admitted in
\* the window are the first `limit` of them at most.
C17_NoLostUpdate ==
    \A k \in KeyIds :
        IF window_calls[k].n = 0 THEN k \notin DOMAIN rate_limits
        ELSE /\ k \in DOMAIN rate_limits
             /\ rate_limits[k].window_start = window_calls[k].window_start
             /\ rate_limits[k].count = window_calls[k].n
             /\ window_calls[k].admitted <= LimitOf(k)
             /\ window_calls[k].admitted =
                    IF window_calls[k].n <= LimitOf(k)
                    THEN window_calls[k].n ELSE LimitOf(k)

\* both keys were checked in one window, one of them past its limit
C17_Witness ==
    /\ window_calls["ka"].n > rate_limit_free + 1
    /\ window_calls["kb"].n > 1
    /\ window_calls["ka"].window_start = window_calls["kb"].window_start

\* the place of a stage in the order A, B, C
Rank(s) == IF s = NOVA THEN 1 ELSE IF s = FLUX THEN 2 ELSE 3

\* the stages the job asked for
Requested(j) == {s \in Operation : Has(s, api_jobs[j].operations)}

Succeeded(c) == c.response \in {"ok", "ok_empty"}

\* C18: the provider calls of a job are made in the order nova, flux,
\* atlas whatever order the request lists the operations in; when a
\* stage has been called every requested stage before it is marked
\* completed and the stage itself is marked processing or completed; a
\* stage is marked completed only if its call succeeded; at most one
\* stage of a job is marked processing.
C18_StagesInFixedOrder ==
    \A j \in DOMAIN api_jobs :
        LET calls == providerCalls[j] IN
        /\ \A i, k \in 1..Len(calls) :
              i < k => Rank(calls[i].request.stage)
                         < Rank(calls[k].request.stage)
        /\ \A i \in 1..Len(calls) :
              LET s == calls[i].request.stage IN
              /\ s \in Requested(j)
              /\ api_jobs[j].progress[s] \in {PROCESSING, COMPLETED}
              /\ \A t \in Requested(j) :
                    Rank(t) < Rank(s) => api_jobs[j].progress[t] = COMPLETED
        /\ \A s \in Operation :
              api_jobs[j].progress[s] = COMPLETED
                => \E i \in 1..Len(calls) :
                      calls[i].request.stage = s /\ Succeeded(calls[i])
        /\ Cardinality({s \in Operation :
                            api_jobs[j].progress[s] = PROCESSING}) <= 1

\* a job that listed atlas before flux has had flux called, then atlas
C18_Witness ==
    \E j \in DOMAIN api_jobs :
        /\ api_jobs[j].operations = <<ATLAS, FLUX>>
        /\ Len(providerCalls[j]) = 2
        /\ api_jobs[j].progress[ATLAS] = PROCESSING

\* C19: a call that failed or timed out is the last provider call of its
\* job, the progress of every requested stage after it is still pending,
\* and no stage of a job is called twice.
C19_FailureAbortsPipeline ==
    \A j \in DOMAIN api_jobs :
        LET calls == providerCalls[j] IN
        /\ \A i \in 1..Len(calls) :
              ~Succeeded(calls[i]) =>
                 /\ i = Len(calls)
                 /\ \A t \in Requested(j) :
                       Rank(t) > Rank(calls[i].request.stage)
                         => api_jobs[j].progress[t] = PENDING
        /\ \A i, k \in 1..Len(calls) :
              i # k => calls[i].request.stage # calls[k].request.stage

\* the second of three stages timed out and the job was marked failed
C19_Witness ==
    \E j \in DOMAIN api_jobs :
        /\ Len(api_jobs[j].operations) = 3
        /\ Len(providerCalls[j]) = 2
        /\ providerCalls[j][2].response = "timeout"
        /\ api_jobs[j].status = FAILED
        /\ api_jobs[j].progress[ATLAS] = PENDING

\* C20: nova and flux are sent the original image; atlas is sent the
\* image flux returned when flux was called before it and returned one,
\* and the original image otherwise; atlas is sent the bundle nova
\* returned when nova was called before it and returned one, and an empty
\* bundle otherwise.
C20_StageDataFlow ==
    \A j \in DOMAIN api_jobs :
        LET calls == providerCalls[j] IN
        \A i \in 1..Len(calls) :
            LET r == calls[i].request IN
            /\ r.stage \in {NOVA, FLUX} => r.image_url = IMAGE
            /\ r.stage = ATLAS =>
                  /\ r.image_url =
                        IF \E k \in 1..(i - 1) :
                              /\ calls[k].request.stage = FLUX
                              /\ calls[k].response = "ok"
                        THEN UPSCALED ELSE IMAGE
                  /\ r.golden_codex =
                        IF \E k \in 1..(i - 1) :
                              /\ calls[k].request.stage = NOVA
                              /\ calls[k].response = "ok"
                        THEN CODEX ELSE EMPTY

\* atlas was sent the image of flux and the bundle of nova
C20_Witness ==
    \E j \in DOMAIN api_jobs :
        /\ Len(providerCalls[j]) = 3
        /\ providerCalls[j][3].request.image_url = UPSCALED
        /\ providerCalls[j][3].request.golden_codex = CODEX

\* C21: in every state of every job, a stage the request did not name has
\* no progress value, and a stage it named has one; this holds when the
\* job is created, while it runs, and after it completed, failed or was
\* cancelled.
C21_ProgressOnlyForRequested ==
    \A j \in DOMAIN api_jobs :
        \A s \in Operation :
            IF s \in Requested(j)
            THEN api_jobs[j].progress[s] \in {PENDING, PROCESSING, COMPLETED}
            ELSE api_jobs[j].progress[s] = None

\* a job that named flux and atlas only has completed both
C21_Witness ==
    \E j \in DOMAIN api_jobs :
        /\ api_jobs[j].operations = <<ATLAS, FLUX>>
        /\ api_jobs[j].status = COMPLETED
        /\ api_jobs[j].progress[ATLAS] = COMPLETED
        /\ api_jobs[j].progress[NOVA] = None

\* the create handler that made job j has returned
HandlerDone(j) ==
    \E p \in CreateProcs : create[p].job_id = j /\ create[p].pc = "done"

\* C22: a job with a webhook reference gets at most one dispatch, and
\* exactly one once its handler has ended with the job completed or
\* failed; a dispatch is made only with the terminal status written, names
\* the event of that status and carries that status in its body; a job
\* without a webhook reference and a cancelled job get no dispatch.
C22_OneWebhookAfterTerminal ==
    \A j \in DOMAIN api_jobs :
        LET w == webhooks[j] IN
        /\ Len(w) <= 1
        /\ api_jobs[j].webhook_url = None => w = <<>>
        /\ api_jobs[j].status = CANCELLED => w = <<>>
        /\ \A i \in 1..Len(w) :
              /\ api_jobs[j].status \in {COMPLETED, FAILED}
              /\ w[i].status = api_jobs[j].status
              /\ w[i].event = IF api_jobs[j].status = COMPLETED
                               THEN "job.completed" ELSE "job.failed"
        /\ ( /\ HandlerDone(j)
              /\ api_jobs[j].webhook_url # None
              /\ api_jobs[j].status \in {COMPLETED, FAILED} )
           => Len(w) = 1

\* the call of stage s in the log of provider calls, if there is one
CallOf(calls, s) ==
    {i \in 1..Len(calls) : calls[i].request.stage = s}

ResponseOf(calls, s) ==
    IF CallOf(calls, s) = {} THEN None
    ELSE calls[CHOOSE i \in CallOf(calls, s) : TRUE].response

\* the results that follow from what the providers answered
ResultsOf(calls) ==
    [original |-> IMAGE,
     golden_codex |-> IF ResponseOf(calls, NOVA) = "ok" THEN CODEX
                      ELSE IF ResponseOf(calls, NOVA) = "ok_empty" THEN EMPTY
                      ELSE None,
     upscaled |-> IF ResponseOf(calls, FLUX) = "ok" THEN UPSCALED ELSE None,
     final |-> IF ResponseOf(calls, ATLAS) = "ok" THEN FINAL ELSE None]

\* C23: the webhook delivery cannot affect the job.  Once the handler of
\* a job has ended, the job's status, results, error and refunded amount
\* and the account's balance are given by the request and by what the
\* providers answered alone, whatever happened to the webhook, and the
\* handler has returned the created job, never an error.
C23_WebhookCannotAffectJob ==
    \A p \in CreateProcs :
        ( create[p].pc = "done" /\ create[p].job_id # 0 ) =>
            LET j == create[p].job_id
                u == create[p].user_id
                calls == providerCalls[j]
                ok == \A i \in 1..Len(calls) : Succeeded(calls[i])
                job == api_jobs[j] IN
            /\ create[p].outcome = "created"
            /\ create[p].response.job_id = j
            /\ job.status = IF ok THEN COMPLETED ELSE FAILED
            /\ job.results = IF ok THEN ResultsOf(calls) ELSE NoResults
            /\ job.error =
                  IF ok THEN NoError
                  ELSE [code |-> "pipeline_error",
                        message |-> calls[Len(calls)].response,
                        retryable |-> TRUE]
            /\ job.refunded = IF ok THEN 0 ELSE job.charged
            /\ balance[u] = initial_balance[u] - job.charged + job.refunded

\* a job of three stages completed and its handler returned although the
\* delivery of its webhook timed out
C23_Witness ==
    \E j \in DOMAIN api_jobs :
        /\ HandlerDone(j)
        /\ api_jobs[j].status = COMPLETED
        /\ Len(providerCalls[j]) = 3
        /\ Len(webhooks[j]) = 1
        /\ webhooks[j][1].delivery = "timeout"

\* C24: every webhook delivery the gateway sends carries a signature
\* header t=<timestamp>,v1=<digest> made with a subscription secret over
\* "<timestamp>.<raw body>", which verify_webhook_signature accepts for
\* that body and secret at the time of sending.
C24_DeliveriesAreSigned ==
    \A j \in DOMAIN api_jobs :
        \A i \in 1..Len(webhooks[j]) :
            \E payload \in Payloads, secret \in Secrets, t \in SignTimes :
                /\ webhooks[j][i].signature =
                       generate_webhook_signature(payload, secret, t, t)
                /\ verify_webhook_signature(payload, webhooks[j][i].signature,
                                            secret, DefaultMaxAge, t)

\* C25: signature round trip.  A signature made at time t and verified at
\* time t is accepted for the payload and secret it was made with, and
\* refused for every other payload (one that differs in a single byte
\* included) and for every other secret.
C25_SignatureRoundTrip ==
    ( sdk.op = "verified" /\ sdk.clock = sdk.timestamp ) =>
        sdk.result = ( sdk.v_payload = sdk.payload
                       /\ sdk.v_secret = sdk.secret )

\* a payload that differs in one byte from the signed one was refused
C25_Witness ==
    /\ sdk.op = "verified" /\ sdk.clock = sdk.timestamp
    /\ sdk.v_secret = sdk.secret
    /\ Len(sdk.payload) = 2 /\ Len(sdk.v_payload) = 2
    /\ sdk.v_payload[1] = sdk.payload[1]
    /\ sdk.v_payload[2] # sdk.payload[2]
    /\ ~sdk.result

\* C26: a correctly signed payload is accepted when the receiver's clock
\* is at most max_age seconds from the timestamp, before or after it, and
\* refused when it is further away.
C26_MaxAgeBothWays ==
    ( /\ sdk.op = "verified"
      /\ sdk.v_payload = sdk.payload /\ sdk.v_secret = sdk.secret ) =>
        sdk.result = ( /\ sdk.clock - sdk.timestamp <= sdk.max_age
                       /\ sdk.timestamp - sdk.clock <= sdk.max_age )

\* a timestamp 301 seconds in the future was refused under the default
C26_Witness ==
    /\ sdk.op = "verified"
    /\ sdk.v_payload = sdk.payload /\ sdk.v_secret = sdk.secret
    /\ sdk.max_age = DefaultMaxAge
    /\ sdk.timestamp - sdk.clock = DefaultMaxAge + 1
    /\ ~sdk.result

\* C27: the existence of a job does not leak.  A GET answers with the job
\* to its owner only; to any other account it answers exactly what it
\* answers for a job id that does not exist.  A cancel by another account
\* ends at once with the outcome and the answer of a cancel of a job id
\* that does not exist, and leaves the job, the balances and the
\* transaction records as they were.
C27_NoExistenceLeak ==
    [][/\ ( reads.op = None /\ reads'.op = "get" ) =>
            LET j == reads'.job_id
                u == reads'.user_id IN
            IF j \in DOMAIN api_jobs /\ api_jobs[j].user_id = u
            THEN /\ reads'.response.status_code = 200
                 /\ reads'.response.job.job_id = j
                 /\ reads'.response.job.status = api_jobs[j].status
            ELSE reads'.response =
                    [status_code |-> 404, code |-> "job_not_found",
                     job_id |-> j]
       /\ \A q \in CancelProcs :
            LET j == cancel'[q].job_id
                u == cancel'[q].user_id IN
            ( /\ cancel[q].pc = "idle" /\ cancel'[q].pc # "idle"
              /\ j \in DOMAIN api_jobs /\ api_jobs[j].user_id # u )
            => /\ cancel'[q] =
                    [IdleCancel EXCEPT !.pc = "done", !.job_id = j,
                                       !.user_id = u, !.outcome = FALSE]
               /\ cancel_job_endpoint(q)' =
                    [status_code |-> 404, code |-> "job_not_found",
                     job_id |-> j]
               /\ UNCHANGED <<balance, credits_available,
                              tokenTransactions, api_jobs>>
      ]_vars

\* a GET of a stored job by another account was answered 404
C27_Witness ==
    /\ reads.op = "get"
    /\ reads.job_id \in DOMAIN api_jobs
    /\ api_jobs[reads.job_id].user_id # reads.user_id
    /\ reads.response.status_code = 404

\* C28: a listing returns only the account's jobs that match the filter,
\* most recent first, as the slice [offset, offset + limit) of that order,
\* and its total is the number of matching jobs whatever limit and offset
\* are.  The job at position i of the page has exactly offset + i - 1
\* matching jobs more recent than it, so the answer is determined by the
\* stored jobs and the arguments, and consecutive pages neither repeat nor
\* skip a job.
C28_ListIsSliceOfNewestFirst ==
    [][( reads.op = None /\ reads'.op = "list" ) =>
        LET r == reads'.response
            matching == {j \in DOMAIN api_jobs :
                           /\ api_jobs[j].user_id = reads'.user_id
                           /\ reads'.status_filter = None
                              \/ api_jobs[j].status = reads'.status_filter}
            total == Cardinality(matching)
            left == Max(0, total - r.pagination.offset)
        IN /\ r.pagination.total = total
           /\ Len(r.jobs) = IF r.pagination.limit < left
                            THEN r.pagination.limit ELSE left
           /\ \A i \in 1 .. Len(r.jobs) :
                /\ r.jobs[i].job_id \in matching
                /\ r.jobs[i].status = api_jobs[r.jobs[i].job_id].status
                /\ Cardinality(
                      {k \in matching :
                         api_jobs[k].created_at > r.jobs[i].created_at})
                   = r.pagination.offset + i - 1
      ]_vars

\* the second page of one job of an account that has two jobs, while the
\* other account has none of them
C28_Witness ==
    /\ reads.op = "list"
    /\ reads.response.pagination.total = 2
    /\ reads.response.pagination.offset = 1
    /\ Len(reads.response.jobs) = 1
    /\ \A j \in DOMAIN api_jobs : api_jobs[j].user_id = reads.user_id

\* the sum of a breakdown over a set of stages
RECURSIVE SumOver(_, _)
SumOver(items, stages) ==
    IF stages = {} THEN 0
    ELSE LET st == CHOOSE x \in stages : TRUE
         IN items[st] + SumOver(items, stages \ {st})

\* C29: the cost is a pure function of the set of requested stages and
\* their options.  The breakdown of an estimate has an entry for exactly
\* the stages that occur in the request, each at the price its option
\* selects, the total is the sum of these entries whatever the order of
\* the list and however often a stage is listed, and the estimate changes
\* no balance, ledger record or job.
C29_CostPureOverStageSet ==
    [][reads'.op = "estimate" =>
        LET r == reads'.response
            ops == reads'.operations
            stages == {ops[i] : i \in 1..Len(ops)}
        IN /\ DOMAIN r.breakdown = stages
           /\ r.estimated_aet = SumOver(r.breakdown, stages)
           /\ NOVA \in stages =>
                r.breakdown[NOVA] =
                    IF reads'.options.nova = "full_gcx"
                    THEN cost_nova_full ELSE cost_nova_standard
           /\ FLUX \in stages =>
                r.breakdown[FLUX] \in {cost_flux_2x, cost_flux_4x}
           /\ ATLAS \in stages => r.breakdown[ATLAS] = cost_atlas
           /\ UNCHANGED <<balance, credits_available, tokenTransactions,
                          api_jobs>>
      ]_vars

\* an estimate of a request that lists a stage twice charged it once
C29_Witness ==
    /\ reads.op = "estimate"
    /\ reads.operations = <<NOVA, NOVA>>
    /\ reads.options.nova = "full_gcx"
    /\ reads.response.estimated_aet = cost_nova_full

\* C30 as stated: stage B costs the high cost for exactly two of the four
\* model choices and the low cost for the other two.
C30_TwoOfFourHigh ==
    ( reads.op = "estimate" /\ DOMAIN reads.flux_costs = FluxModels ) =>
        /\ Cardinality({m \in FluxModels :
                          reads.flux_costs[m] = cost_flux_4x}) = 2
        /\ Cardinality({m \in FluxModels :
                          reads.flux_costs[m] = cost_flux_2x}) = 2

\* C30, amended: stage B costs the high cost for exactly three of the four
\* model choices (4x, anime, photo) and the low cost for the other one
\* (2x).
C30_ThreeOfFourHigh ==
    reads.op = "estimate" =>
        /\ \A m \in DOMAIN reads.flux_costs :
                reads.flux_costs[m] =
                    IF m = "2x" THEN cost_flux_2x ELSE cost_flux_4x
        /\ DOMAIN reads.flux_costs = FluxModels =>
            /\ Cardinality({m \in FluxModels :
                              reads.flux_costs[m] = cost_flux_4x}) = 3
            /\ Cardinality({m \in FluxModels :
                              reads.flux_costs[m] = cost_flux_2x}) = 1

\* every one of the four models has been estimated
C30_Witness ==
    /\ reads.op = "estimate"
    /\ DOMAIN reads.flux_costs = FluxModels
    /\ reads.flux_costs["photo"] = cost_flux_4x

\* C31: the ledger is append-only and consistent with the balance.  Every
\* step leaves an account's records as they were, together with its stored
\* balance, or appends exactly one record to them; the balance_after of the
\* latest record is the stored balance; and each record's balance_after
\* differs from the previous record's by its own amount, minus for a
\* deduction and plus for a refund.
C31_LedgerAppendOnlyConsistent ==
    [][\A u \in Users :
        LET old == tokenTransactions[u]
            new == tokenTransactions'[u]
        IN /\ Len(new) \in {Len(old), Len(old) + 1}
           /\ SubSeq(new, 1, Len(old)) = old
           /\ Len(new) = Len(old) => balance'[u] = balance[u]
           /\ Len(new) > 0 => new[Len(new)].balance_after = balance'[u]
           /\ \A i \in 2 .. Len(new) :
                new[i].balance_after =
                    new[i - 1].balance_after +
                    ( IF new[i].type = "refund" THEN new[i].amount
                      ELSE 0 - new[i].amount )
      ]_vars

\* C32: every job that create persisted eventually reaches a terminal
\* status (COMPLETED, FAILED or CANCELLED), given that every provider call
\* eventually returns, fails or times out; no job stays PENDING or
\* PROCESSING forever.
C32_EveryJobTerminates ==
    \A j \in JobIds :
        ( j \in DOMAIN api_jobs ) ~>
        ( j \in DOMAIN api_jobs
          /\ api_jobs[j].status \in {COMPLETED, FAILED, CANCELLED} )

\* C38: whenever the create_job service call has returned normally, for a
\* new job or for an idempotent replay, the create endpoint answers with
\* a success response that carries the job's id, status and estimated
\* cost; a job that was charged and persisted is never answered with an
\* error.
C38_CreateAnswersSuccess ==
    \A p \in CreateProcs :
        ( create[p].pc = "done"
          /\ create[p].outcome \in {"created", "replayed"} )
        => /\ create_job_endpoint(p).status_code = 202
           /\ create_job_endpoint(p).job_id = create[p].response.job_id
           /\ create_job_endpoint(p).status = create[p].response.status
           /\ create_job_endpoint(p).estimated = create[p].response.estimated

\* the deduction records of an account
Deductions(u) ==
    {i \in 1 .. Len(tokenTransactions[u]) :
        tokenTransactions[u][i].type = "deduction"}

\* C33: the SDK's jobs.create called with a request_id is idempotent:
\* however many times the SDK sends the request, its own retries after a
\* 429, 500, 502 or 503 included, the server creates at most one job and
\* makes at most one deduction for that request_id.
C33_SdkCreateIdempotent ==
    client.request_id # None =>
        /\ Cardinality(DOMAIN api_jobs) <= 1
        /\ \A u \in Users : Cardinality(Deductions(u)) <= 1

C34_CancelAtomicWithPipeline ==
    [][/\ \A q \in CancelProcs :
            ( cancel[q].pc = "done" /\ cancel[q].outcome = TRUE ) =>
                /\ providerCalls'[cancel[q].job_id] =
                        providerCalls[cancel[q].job_id]
                /\ api_jobs[cancel[q].job_id].status = CANCELLED
                /\ api_jobs'[cancel[q].job_id].status = CANCELLED
       /\ \A j \in DOMAIN api_jobs' :
            ~( api_jobs'[j].status = COMPLETED /\ api_jobs'[j].refunded > 0 )
      ]_vars

\* C36: in every reachable state a job with status COMPLETED has the
\* progress of every requested stage equal to completed, results attached,
\* no error, refunded = 0 and a completion time; its net charge is its
\* full cost.
C36_CompletedJobIsWhole ==
    \A j \in DOMAIN api_jobs :
        api_jobs[j].status = COMPLETED =>
            /\ \A op \in Operation :
                    Has(op, api_jobs[j].operations) =>
                        api_jobs[j].progress[op] = COMPLETED
            /\ api_jobs[j].results # NoResults
            /\ api_jobs[j].error = NoError
            /\ api_jobs[j].refunded = 0
            /\ api_jobs[j].completed_at = TRUE
            /\ api_jobs[j].charged - api_jobs[j].refunded
                    = api_jobs[j].estimated

\* C37: create runs the whole pipeline before it returns.  Whenever
\* create_job returns normally for a job it created, the stored status of
\* that job is COMPLETED or FAILED already, and the response it returns
\* reports the status pending.
C37_CreateReturnsAfterPipeline ==
    [][\A p \in CreateProcs :
        ( /\ create[p].pc # "done" /\ create'[p].pc = "done"
          /\ create'[p].outcome = "created" )
        => /\ create'[p].response.job_id \in DOMAIN api_jobs'
           /\ api_jobs'[create'[p].response.job_id].status
                \in {COMPLETED, FAILED}
           /\ create'[p].response.status = PENDING
      ]_vars

\* C39: rejected checks still count.  Once a check on a key was rejected
\* in a window, every later check on that key in the same window adds to
\* the key's count and is rejected too; and the admitted check number k of
\* a window, 1 <= k <= limit, reports remaining = limit - k.
C39_RejectedChecksCount ==
    [][rate_limits' # rate_limits =>
        LET K == rate_result'.key_id
            rejectedBefore ==
                /\ window_calls[K].window_start = Minute(now)
                /\ window_calls[K].n > window_calls[K].admitted
            k == window_calls'[K].n
        IN /\ rejectedBefore =>
                /\ ~rate_result'.admitted
                /\ rate_limits'[K].count = rate_limits[K].count + 1
           /\ rate_result'.admitted =>
                /\ k = window_calls'[K].admitted
                /\ 1 <= k /\ k <= LimitOf(K)
                /\ rate_result'.remaining = LimitOf(K) - k
      ]_vars

\* the second check over the limit of a window was rejected as well
C39_Witness ==
    /\ rate_result.key_id = "ka" /\ ~rate_result.admitted
    /\ window_calls["ka"].n = rate_limit_free + 2
    /\ window_calls["ka"].admitted = rate_limit_free
    /\ rate_limits["ka"].count = rate_limit_free + 2

====
